---- MODULE Spec2Model ----
(***************************************************************************)
(* Order pricing and inventory bookkeeping of the e-commerce dashboard.    *)
(*                                                                         *)
(* The persistent state is the relational store declared by the SQL        *)
(* migrations (products, product_variants, orders, order_items); the       *)
(* operations are the event handlers of the React pages that write to it.  *)
(* One operator session has one page mounted at a time (screen) together   *)
(* with that page's component state.                                       *)
(*                                                                         *)
(* Money is exact fixed point: one Cent is 1000 units, so that a tax rate  *)
(* entered in tenths of a percent (the input's step) multiplies exactly.   *)
(* The IEEE-754 rounding of JavaScript numbers is not modelled.            *)
(***************************************************************************)
EXTENDS Integers, Sequences, FiniteSets, TLC

VARIABLES
    products,       \* table products
    variants,       \* table product_variants
    nextProductId,  \* gen_random_uuid() for products: next fresh id
    nextVariantId,  \* gen_random_uuid() for product_variants
    uniqueDefault,  \* the store has the constraint one_default_variant_per_product
    orders,         \* table orders
    order_items,    \* table order_items
    nextOrderId,    \* gen_random_uuid() for orders
    nextItemId,     \* gen_random_uuid() for order_items
    customers,      \* table customers
    screen,         \* the page mounted in the operator's session
    items,          \* OrderForm: useState items
    tax_rate,       \* OrderForm: charges.tax_rate, in tenths of a percent
    pf,             \* ProductForm: formData and hasVariants
    pd,             \* ProductDetails: product, editedProduct, variants, hasVariants
    sf,             \* StockForm: formData
    num,            \* OrderDetails: the amount the invoice spells out
    words,          \* OrderDetails: the text numberToWords returned for it
    categories,     \* table categories
    admin_actions,  \* table admin_actions, in insertion order
    nextRowId,      \* gen_random_uuid() for customers and categories
    recv,           \* StockForm.handleSubmit in flight, per operator session
    company_settings, \* table company_settings
    nextSettingsId, \* gen_random_uuid() for company_settings
    profile,        \* Profile: companySettings and the load in flight, per session
    pg,             \* Products: pagination, searchTerm and the rows on display
    last            \* outcome of the last handler run: [op, status, ...]

vars == <<products, variants, nextProductId, nextVariantId, uniqueDefault, orders, order_items,
          nextOrderId, nextItemId, customers, screen, items, tax_rate, pf, pd, sf, num,
          words, categories, admin_actions, nextRowId, recv, company_settings,
          nextSettingsId, profile, pg, last>>

dbProductVars == <<products, variants, nextProductId, nextVariantId, uniqueDefault>>
dbOrderVars == <<orders, order_items, nextOrderId, nextItemId, customers>>
invoiceVars == <<num, words>>
sessionVars == <<recv, company_settings, nextSettingsId, profile, pg>>
sideVars == <<categories, admin_actions, nextRowId, sessionVars>>

\* The operator sessions that work at the same time.
Sessions == {1, 2}

\* StockForm before a submit.
recvIdle == [pc |-> "idle", quantity |-> 0, existingVariant |-> << >>,
             status |-> "none", accepted |-> 0, rounds |-> 0]

\* Profile before it is mounted.
profileClosed == [pc |-> "closed", id |-> 0, name |-> "", data |-> << >>]

\* Products as mounted: useState of pagination and searchTerm.
pgInitial == [page |-> 1, pageSize |-> 10, total |-> 0, searchTerm |-> << >>,
              shown |-> 0]

SessionInit ==
    /\ recv = [s \in Sessions |-> recvIdle]
    /\ company_settings = {}
    /\ nextSettingsId = 1
    /\ profile = [s \in Sessions |-> profileClosed]
    /\ pg = pgInitial

\* The tables and sessions a scenario does not use.
SideInit ==
    /\ categories = {}
    /\ admin_actions = << >>
    /\ nextRowId = 1
    /\ SessionInit

(***************************************************************************)
(* Bounds of the model.                                                    *)
(***************************************************************************)
MaxProducts == 1
MaxVariants == 2
MaxOrders == 1
MaxLines == 2
MaxFormVariants == 2
MaxStock == 8
MaxLog == 3
MaxReceives == 2
MaxPage == 3

(***************************************************************************)
(* Values.                                                                 *)
(***************************************************************************)
\* SQL NULL / JS null of a text column.
NULL == "<null>"
\* A nullable number is a sequence of length at most one.
NoNum == << >>
Some(n) == <<n>>
IsNum(o) == o # NoNum
\* JS ToNumber of a nullable number in arithmetic: null * q is 0.
ToNumber(o) == IF IsNum(o) THEN o[1] ELSE 0
\* JS truthiness of a nullable number: null, NaN and 0 are falsy.
Truthy(o) == IsNum(o) /\ o[1] # 0
\* JS a || b on numbers (b is a plain number).
OrElse(o, b) == IF Truthy(o) THEN o[1] ELSE b
\* JS s || null on a text input.
TextOrNull(s) == IF s = "" THEN NULL ELSE s

Cent == 10 * 100
Dollar == 100 * Cent

\* PostgreSQL integer limits (Inventory.tsx).
MAX_INTEGER == 2147483647
MIN_INTEGER == -2147483647 - 1

Max(a, b) == IF a >= b THEN a ELSE b

RECURSIVE SetToSeq(_)
\* The rows of a set in id order (the order the store returns them in).
SetToSeq(S) ==
    IF S = {} THEN << >>
    ELSE LET r == CHOOSE x \in S : \A y \in S : x.id <= y.id
         IN <<r>> \o SetToSeq(S \ {r})

RECURSIVE SumSeq(_)
SumSeq(s) == IF s = << >> THEN 0 ELSE Head(s) + SumSeq(Tail(s))

\* A non-negative JavaScript number with three decimals: int + frac / 1000.
Amount(int, frac) == [int |-> int, frac |-> frac]

\* What the last handler reported: "ok" (it ran to its end), "validation" (it
\* refused its input before any request), "sku" (it set the SKU error and
\* returned) or "error" (a request failed).
Outcome(op, status) == [op |-> op, status |-> status]
NoOutcome == Outcome("none", "none")

(***************************************************************************)
(* The store: constraints of the schema.                                   *)
(***************************************************************************)
\* orders.total_amount GENERATED ALWAYS AS (...) STORED
GeneratedTotalNoShipping(o) ==
    o.subtotal_amount + o.tax_amount - o.discount_amount
GeneratedTotal(o) ==
    o.subtotal_amount + o.tax_amount + o.shipping_amount - o.discount_amount

\* CHECK constraints on the orders amounts; a null amount violates NOT NULL.
OrderChecks(o) ==
    /\ IsNum(o.subtotal_amount) /\ o.subtotal_amount[1] >= 0
    /\ IsNum(o.tax_amount) /\ o.tax_amount[1] >= 0
    /\ o.shipping_amount >= 0
    /\ o.discount_amount >= 0

\* order_items: NOT NULL quantity and price, foreign keys to orders,
\* products and product_variants (variant_id 0 is null).
\* order_items as it would be with a stock-sufficiency rule on the line
\* quantity; the schema has none.
OrderItemChecksInStock(it, os) ==
    /\ IsNum(it.quantity)
    /\ IsNum(it.price)
    /\ \E o \in os : o.id = it.order_id
    /\ \E p \in products : p.id = it.product_id
    /\ it.variant_id = 0
          \/ \E v \in variants : v.id = it.variant_id /\ it.quantity[1] <= v.quantity

OrderItemChecks(it, os) ==
    /\ IsNum(it.quantity)
    /\ IsNum(it.price)
    /\ \E o \in os : o.id = it.order_id
    /\ \E p \in products : p.id = it.product_id
    /\ it.variant_id = 0 \/ \E v \in variants : v.id = it.variant_id

(***************************************************************************)
(* OrderForm.tsx                                                           *)
(***************************************************************************)
\* useState: charges
DefaultTaxRate == 100
shipping_amount == 10 * Dollar
discount_amount == 0 * Dollar

\* useState: items
emptyItem == [product_id |-> 0, variant_id |-> 0, quantity |-> Some(1), price |-> Some(0)]

\* fetchProducts: a product's variants as embedded in the product list.
VariantsOf(pid) == SetToSeq({v \in variants : v.product_id = pid})

\* Array.prototype.find: the first element satisfying P, as a nullable.
FindFirst(s, P(_)) ==
    LET hits == {i \in 1..Len(s) : P(s[i])}
    IN IF hits = {} THEN << >>
       ELSE <<s[CHOOSE i \in hits : \A j \in hits : i <= j]>>

InStockNamed(v) == v.quantity > 0 /\ v.variant_name # NULL /\ v.variant_name # ""

\* handleProductChange: the line a product selection produces.
ProductLine(p) ==
    LET vs == VariantsOf(p.id)
        hasVariantsInStock == \E i \in 1..Len(vs) : vs[i].quantity > 0
        defaultVariant == IF hasVariantsInStock THEN FindFirst(vs, InStockNamed)
                          ELSE << >>
    IN [product_id |-> p.id,
        variant_id |-> IF defaultVariant = << >> THEN 0 ELSE defaultVariant[1].id,
        quantity |-> Some(1),
        price |-> IF defaultVariant = << >> THEN Some(p.price)
                  ELSE Some(OrElse(defaultVariant[1].price, p.price))]

handleProductChange(index, p) ==
    /\ screen = "orderForm"
    /\ index \in 1..Len(items)
    /\ p \in products
    /\ items' = [items EXCEPT ![index] = ProductLine(p)]
    /\ last' = NoOutcome
    /\ UNCHANGED <<sideVars, invoiceVars, dbProductVars, dbOrderVars, screen, tax_rate, pf, pd, sf>>

\* The variant <select> is rendered when the product has a named variant in
\* stock; its options are the named variants, disabled at quantity 0.
VariantSelectable(pid, v) ==
    /\ v.product_id = pid
    /\ \E w \in variants : w.product_id = pid /\ InStockNamed(w)
    /\ v.variant_name # NULL /\ v.variant_name # ""
    /\ v.quantity # 0

handleVariantChange(index, v) ==
    /\ screen = "orderForm"
    /\ index \in 1..Len(items)
    /\ items[index].product_id # 0
    /\ v \in variants
    /\ VariantSelectable(items[index].product_id, v)
    /\ items' = [items EXCEPT ![index].variant_id = v.id, ![index].price = v.price]
    /\ last' = NoOutcome
    /\ UNCHANGED <<sideVars, invoiceVars, dbProductVars, dbOrderVars, screen, tax_rate, pf, pd, sf>>

\* quantity is parseInt(e.target.value): not a number when the input is empty.
handleQuantityChange(index, quantity) ==
    /\ screen = "orderForm"
    /\ index \in 1..Len(items)
    /\ items' = [items EXCEPT ![index].quantity = quantity]
    /\ last' = NoOutcome
    /\ UNCHANGED <<sideVars, invoiceVars, dbProductVars, dbOrderVars, screen, tax_rate, pf, pd, sf>>

addItem ==
    /\ screen = "orderForm"
    /\ Len(items) < MaxLines
    /\ items' = Append(items, emptyItem)
    /\ last' = NoOutcome
    /\ UNCHANGED <<sideVars, invoiceVars, dbProductVars, dbOrderVars, screen, tax_rate, pf, pd, sf>>

removeItem(index) ==
    /\ screen = "orderForm"
    /\ index \in 1..Len(items)
    /\ IF Len(items) = 1
       THEN /\ last' = Outcome("removeItem", "validation")
            /\ UNCHANGED items
       ELSE /\ items' = [i \in 1..(Len(items) - 1) |->
                            IF i < index THEN items[i] ELSE items[i + 1]]
            /\ last' = NoOutcome
    /\ UNCHANGED <<sideVars, invoiceVars, dbProductVars, dbOrderVars, screen, tax_rate, pf, pd, sf>>

\* The tax rate <input>: onChange sets charges.tax_rate.
setTaxRate(rate) ==
    /\ screen = "orderForm"
    /\ tax_rate' = rate
    /\ last' = NoOutcome
    /\ UNCHANGED <<sideVars, invoiceVars, dbProductVars, dbOrderVars, screen, items, pf, pd, sf>>

\* item.price * item.quantity: a null price counts as 0, a quantity that is
\* not a number (NaN, written as no number) makes the product NaN.
LineAmount(item) ==
    IF IsNum(item.quantity) THEN Some(ToNumber(item.price) * item.quantity[1])
    ELSE NoNum

\* items.reduce((sum, item) => sum + item.price * item.quantity, 0): NaN as
\* soon as one line is NaN.
calculateSubtotalNoQuantity(its) ==
    Some(SumSeq([i \in 1..Len(its) |-> ToNumber(its[i].price)]))
calculateSubtotal(its) ==
    IF \A i \in 1..Len(its) : IsNum(LineAmount(its[i]))
    THEN Some(SumSeq([i \in 1..Len(its) |-> LineAmount(its[i])[1]]))
    ELSE NoNum

\* subtotal * charges.tax_rate, the rate being tax_rate / 1000.
TaxOf(subtotal, rate) ==
    IF IsNum(subtotal) THEN Some((subtotal[1] * rate) \div 1000) ELSE NoNum

calculateTotal(its, rate) ==
    LET subtotal == calculateSubtotal(its)
    IN IF IsNum(subtotal)
       THEN Some(subtotal[1] + TaxOf(subtotal, rate)[1]
                     + shipping_amount - discount_amount)
       ELSE NoNum

\* A form whose quantity inputs carry no min attribute.
OrderFormValidNoMin ==
    tax_rate >= 0 /\ tax_rate <= 1000

\* Constraint validation of the form's inputs before onSubmit runs: quantity
\* has min="1" but is not required, so an emptied quantity (which parseInt
\* turns into NaN) passes; the tax rate has min="0" max="100".
OrderFormValid ==
    /\ \A i \in 1..Len(items) : IsNum(items[i].quantity) => items[i].quantity[1] >= 1
    /\ tax_rate >= 0 /\ tax_rate <= 1000

\* The rows handleSubmit sends.
OrderRow(customer) ==
    [id |-> nextOrderId,
     customer_id |-> customer,
     status |-> "pending",
     subtotal_amount |-> calculateSubtotal(items),
     tax_amount |-> TaxOf(calculateSubtotal(items), tax_rate),
     shipping_amount |-> shipping_amount,
     discount_amount |-> discount_amount]

StoredOrder(row) ==
    [id |-> row.id,
     customer_id |-> row.customer_id,
     status |-> row.status,
     subtotal_amount |-> row.subtotal_amount[1],
     tax_amount |-> row.tax_amount[1],
     shipping_amount |-> row.shipping_amount,
     discount_amount |-> row.discount_amount,
     total_amount |-> GeneratedTotal(
         [subtotal_amount |-> row.subtotal_amount[1],
          tax_amount |-> row.tax_amount[1],
          shipping_amount |-> row.shipping_amount,
          discount_amount |-> row.discount_amount])]

OrderItemRows(orderId) ==
    [i \in 1..Len(items) |->
        [id |-> nextItemId + i - 1,
         order_id |-> orderId,
         product_id |-> items[i].product_id,
         variant_id |-> items[i].variant_id,
         quantity |-> items[i].quantity,
         price |-> items[i].price]]

StoredItem(row) ==
    [id |-> row.id, order_id |-> row.order_id, product_id |-> row.product_id,
     variant_id |-> row.variant_id, quantity |-> row.quantity[1],
     price |-> row.price[1]]

\* handleSubmit. customer is selectedCustomer (0: none), addressComplete the
\* delivery-address test; orderOk and itemsOk are the backend's answers to the
\* two inserts (false: the request fails).
OrderForm_handleSubmit(customer, addressComplete, orderOk, itemsOk) ==
    /\ screen = "orderForm"
    /\ nextOrderId <= MaxOrders
    /\ OrderFormValid
    /\ IF customer = 0
          \/ (\E i \in 1..Len(items) : items[i].product_id = 0)
          \/ ~addressComplete
       THEN /\ last' = Outcome("OrderForm_handleSubmit", "validation")
            /\ UNCHANGED <<dbOrderVars, screen, items, tax_rate>>
       ELSE LET row == OrderRow(customer)
                rows == OrderItemRows(row.id)
            IN IF ~(orderOk /\ OrderChecks(row))
               THEN /\ last' = Outcome("OrderForm_handleSubmit", "error")
                    /\ UNCHANGED <<dbOrderVars, screen, items, tax_rate>>
               ELSE /\ orders' = orders \cup {StoredOrder(row)}
                    /\ nextOrderId' = nextOrderId + 1
                    /\ IF itemsOk /\ \A i \in 1..Len(rows) :
                                        OrderItemChecks(rows[i], orders')
                       THEN /\ order_items' = order_items \cup
                                   {StoredItem(rows[i]) : i \in 1..Len(rows)}
                            /\ nextItemId' = nextItemId + Len(rows)
                            /\ screen' = "orderDetails"
                            /\ last' = Outcome("OrderForm_handleSubmit", "ok")
                            /\ UNCHANGED <<items, tax_rate>>
                       ELSE /\ last' = Outcome("OrderForm_handleSubmit", "error")
                            /\ UNCHANGED <<order_items, nextItemId, screen,
                                           items, tax_rate>>
    /\ UNCHANGED <<sideVars, invoiceVars, dbProductVars, customers, pf, pd, sf>>

\* Mounting OrderForm: the initial component state.
OpenOrderForm ==
    /\ screen = "list"
    /\ nextOrderId <= MaxOrders
    /\ screen' = "orderForm"
    /\ items' = <<emptyItem>>
    /\ tax_rate' = DefaultTaxRate
    /\ last' = NoOutcome
    /\ UNCHANGED <<sideVars, invoiceVars, dbProductVars, dbOrderVars, pf, pd, sf>>

(***************************************************************************)
(* OrderDetails.tsx                                                        *)
(***************************************************************************)
Statuses == {"pending", "confirmed", "shipped", "delivered", "cancelled"}

\* Mounting OrderDetails for a stored order.
OpenOrderDetails ==
    /\ screen = "list"
    /\ orders # {}
    /\ screen' = "orderDetails"
    /\ last' = NoOutcome
    /\ UNCHANGED <<sideVars, invoiceVars, dbProductVars, dbOrderVars, items, tax_rate, pf, pd, sf>>

\* UPDATE orders SET status: the generated column is recomputed by the store.
UpdateOrderStatus(o, newStatus) ==
    LET u == [o EXCEPT !.status = newStatus]
    IN [u EXCEPT !.total_amount = GeneratedTotal(u)]

handleStatusChange(o, newStatus) ==
    /\ screen = "orderDetails"
    /\ o \in orders
    /\ orders' = (orders \ {o}) \cup {UpdateOrderStatus(o, newStatus)}
    /\ last' = Outcome("handleStatusChange", "ok")
    /\ UNCHANGED <<sideVars, invoiceVars, dbProductVars, order_items, nextOrderId, nextItemId, customers,
                   screen, items, tax_rate, pf, pd, sf>>

\* Text is a sequence of tokens: words and single spaces.
Str(w) == IF w = "" THEN << >> ELSE <<w>>
SP == " "

\* array[i] of a JavaScript array: undefined outside the array.
At(table, i) == IF i + 1 \in DOMAIN table THEN table[i + 1] ELSE "undefined"

RECURSIVE trimStart(_)
trimStart(t) == IF t # << >> /\ Head(t) = SP THEN trimStart(Tail(t)) ELSE t
RECURSIVE trimEnd(_)
trimEnd(t) ==
    IF t # << >> /\ t[Len(t)] = SP THEN trimEnd(SubSeq(t, 1, Len(t) - 1)) ELSE t
\* String.prototype.trim
trim(t) == trimEnd(trimStart(t))

\* numberToWords: the word tables.
ones == <<"", "One", "Two", "Three", "Four", "Five", "Six", "Seven", "Eight", "Nine">>
tens == <<"", "", "Twenty", "Thirty", "Forty", "Fifty", "Sixty", "Seventy", "Eighty",
          "Ninety">>
teensFromEleven ==
    <<"Eleven", "Twelve", "Thirteen", "Fourteen", "Fifteen", "Sixteen", "Seventeen",
      "Eighteen", "Nineteen", "Twenty">>
teens == <<"Ten", "Eleven", "Twelve", "Thirteen", "Fourteen", "Fifteen", "Sixteen",
           "Seventeen", "Eighteen", "Nineteen">>

convertLessThanThousand(n) ==
    IF n = 0 THEN << >>
    ELSE LET hundreds == IF n >= 100
                         THEN Str(At(ones, n \div 100)) \o <<SP, "Hundred", SP>>
                         ELSE << >>
             m == IF n >= 100 THEN n % 100 ELSE n
         IN IF m >= 20
            THEN hundreds \o Str(At(tens, m \div 10)) \o <<SP>>
                     \o (IF m % 10 > 0 THEN Str(At(ones, m % 10)) \o <<SP>> ELSE << >>)
            ELSE IF m >= 10
            THEN hundreds \o Str(At(teens, m - 10)) \o <<SP>>
            ELSE IF m > 0 THEN hundreds \o Str(At(ones, m)) \o <<SP>>
            ELSE hundreds

\* Math.floor of a non-negative amount.
Floor(x) == x.int

numberToWords(x) ==
    IF x.int = 0 /\ x.frac = 0 THEN <<"Zero">>
    ELSE LET n == Floor(x)
             millions == IF n >= 1000000
                         THEN convertLessThanThousand(n \div 1000000)
                                  \o <<"Million", SP>>
                         ELSE << >>
             n1 == IF n >= 1000000 THEN n % 1000000 ELSE n
             thousands == IF n1 >= 1000
                          THEN convertLessThanThousand(n1 \div 1000)
                                   \o <<"Thousand", SP>>
                          ELSE << >>
             n2 == IF n1 >= 1000 THEN n1 % 1000 ELSE n1
         IN trim(millions \o thousands \o convertLessThanThousand(n2))
                \o <<SP, "Only">>

\* printInvoice: the invoice spells the amount out.
printInvoice ==
    /\ screen = "orderDetails"
    /\ words = << >>
    /\ words' = numberToWords(num)
    /\ last' = NoOutcome
    /\ UNCHANGED <<sideVars, dbProductVars, dbOrderVars, num, screen, items, tax_rate, pf, pd, sf>>

(***************************************************************************)
(* The audit trigger: log_admin_action on customers, categories, products. *)
(***************************************************************************)
AuditedTables == {"customers", "categories", "products"}

\* A trigger's OLD and NEW: a row, or no row (NEW of a DELETE, OLD of an INSERT).
NoRow == << >>

\* A nullable text: no text, or a sequence of pieces.
NoText == << >>
Text(t) == <<t>>

\* a || b: null as soon as one side is null.
Concat(a, b) == IF a = NoText \/ b = NoText THEN NoText ELSE Text(a[1] \o b[1])

\* entity_name := NEW.name, for each of the three tables. In a DELETE there
\* is no NEW row: its fields read as null (before PostgreSQL 11 the read
\* raises an error, which aborts the statement as the null does below).
entity_name(TG_OP, oldRow, newRow) ==
    IF newRow = NoRow THEN NoText ELSE Text(<<newRow[1].name>>)

\* The description: the verb of TG_OP, the table and the entity name.
action_description(TG_OP, TG_TABLE_NAME, oldRow, newRow) ==
    Concat(Text(<<CASE TG_OP = "INSERT" -> "Created new "
                    [] TG_OP = "UPDATE" -> "Updated "
                    [] TG_OP = "DELETE" -> "Deleted ",
                  TG_TABLE_NAME, " - ">>),
           entity_name(TG_OP, oldRow, newRow))

\* LOWER(TG_OP)
Lower(TG_OP) ==
    CASE TG_OP = "INSERT" -> "insert"
      [] TG_OP = "UPDATE" -> "update"
      [] TG_OP = "DELETE" -> "delete"

\* The row log_admin_action inserts into admin_actions.
AdminActionRow(TG_OP, TG_TABLE_NAME, oldRow, newRow) ==
    [action_type |-> Lower(TG_OP),
     entity_type |-> TG_TABLE_NAME,
     entity_id |-> IF TG_OP = "DELETE" THEN oldRow[1].id ELSE newRow[1].id,
     description |-> action_description(TG_OP, TG_TABLE_NAME, oldRow, newRow)]

\* admin_actions: action_type, entity_type and description are NOT NULL.
AdminActionChecks(row) ==
    row.action_type # NULL /\ row.entity_type # NULL /\ row.description # NoText

\* log_admin_action, AFTER INSERT OR UPDATE OR DELETE FOR EACH ROW: the log
\* after the trigger ran, or no log when its insert is refused, which aborts
\* the statement that fired it.
log_admin_action(log, TG_OP, TG_TABLE_NAME, oldRow, newRow) ==
    LET row == AdminActionRow(TG_OP, TG_TABLE_NAME, oldRow, newRow)
    IN IF AdminActionChecks(row) THEN <<Append(log, row)>> ELSE << >>

\* The rows of an audited table.
Table(t) ==
    CASE t = "customers" -> customers
      [] t = "categories" -> categories
      [] t = "products" -> products

\* The statement leaves the audited table t with rows and the log with log.
Commit(t, rows, log) ==
    /\ customers' = IF t = "customers" THEN rows ELSE customers
    /\ categories' = IF t = "categories" THEN rows ELSE categories
    /\ products' = IF t = "products" THEN rows ELSE products
    /\ admin_actions' = log

\* INSERT INTO t: the row is stored and the trigger runs for it; a failing
\* trigger aborts the statement.
InsertRow(t, name) ==
    /\ screen = "list"
    /\ Len(admin_actions) < MaxLog
    /\ LET id == IF t = "products" THEN nextProductId ELSE nextRowId
           row == [id |-> id, name |-> name]
           log == log_admin_action(admin_actions, "INSERT", t, NoRow, <<row>>)
       IN IF log = << >>
          THEN /\ last' = Outcome("InsertRow", "error")
               /\ UNCHANGED <<products, customers, categories, admin_actions,
                              nextProductId, nextRowId>>
          ELSE /\ Commit(t, Table(t) \cup {row}, log[1])
               /\ nextProductId' = IF t = "products" THEN id + 1 ELSE nextProductId
               /\ nextRowId' = IF t = "products" THEN nextRowId ELSE id + 1
               /\ last' = Outcome("InsertRow", "ok")
    /\ UNCHANGED <<sessionVars, invoiceVars, variants, nextVariantId, uniqueDefault, orders,
                   order_items, nextOrderId, nextItemId, screen, items, tax_rate, pf,
                   pd, sf>>

\* UPDATE t SET name WHERE id = row.id
UpdateRow(t, row, name) ==
    /\ screen = "list"
    /\ Len(admin_actions) < MaxLog
    /\ row \in Table(t)
    /\ LET new == [row EXCEPT !.name = name]
           log == log_admin_action(admin_actions, "UPDATE", t, <<row>>, <<new>>)
       IN IF log = << >>
          THEN /\ last' = Outcome("UpdateRow", "error")
               /\ UNCHANGED <<products, customers, categories, admin_actions>>
          ELSE /\ Commit(t, (Table(t) \ {row}) \cup {new}, log[1])
               /\ last' = Outcome("UpdateRow", "ok")
    /\ UNCHANGED <<sessionVars, invoiceVars, variants, nextProductId, nextVariantId, nextRowId,
                   uniqueDefault, orders, order_items, nextOrderId, nextItemId, screen,
                   items, tax_rate, pf, pd, sf>>

\* DELETE FROM t WHERE id = row.id, for a row nothing references.
DeleteRow(t, row) ==
    /\ screen = "list"
    /\ Len(admin_actions) < MaxLog
    /\ row \in Table(t)
    /\ LET log == log_admin_action(admin_actions, "DELETE", t, <<row>>, NoRow)
       IN IF log = << >>
          THEN /\ last' = Outcome("DeleteRow", "error")
               /\ UNCHANGED <<products, customers, categories, admin_actions>>
          ELSE /\ Commit(t, Table(t) \ {row}, log[1])
               /\ last' = Outcome("DeleteRow", "ok")
    /\ UNCHANGED <<sessionVars, invoiceVars, variants, nextProductId, nextVariantId, nextRowId,
                   uniqueDefault, orders, order_items, nextOrderId, nextItemId, screen,
                   items, tax_rate, pf, pd, sf>>

(***************************************************************************)
(* Products.tsx and Customers: deleting a row.                             *)
(***************************************************************************)
\* order_items.product_id REFERENCES products(id) and order_items.variant_id
\* REFERENCES product_variants(id), neither with an ON DELETE action: a row
\* that an order item references cannot be deleted.
(***************************************************************************)
(* Products: the paginated list (components/Table with pages/Products).    *)
(***************************************************************************)
itemsPerPageOptions == {5, 10}

\* ILIKE compares without regard to case.
FoldCase(c) == CASE c = "A" -> "a" [] c = "B" -> "b" [] OTHER -> c

\* name ILIKE '%term%'
ilike(name, term) ==
    \E i \in 0..(Len(name) - Len(term)) :
        \A j \in 1..Len(term) : FoldCase(name[i + j]) = FoldCase(term[j])

\* Math.ceil(pagination.total / pagination.pageSize)
totalPages(p) == (p.total + p.pageSize - 1) \div p.pageSize

\* fetchProducts: the count of the rows matching searchTerm (a failed count
\* request counts as 0), then the rows of range((page - 1) * pageSize,
\* page * pageSize - 1); an error of the second request leaves the state.
fetchProducts(p, rows, ok, countOk) ==
    LET count == Cardinality({r \in rows : ilike(r.name, p.searchTerm)})
        from == (p.page - 1) * p.pageSize
        data == IF count <= from THEN 0
                ELSE IF count - from < p.pageSize THEN count - from
                ELSE p.pageSize
    IN IF ok THEN [p EXCEPT !.shown = data, !.total = IF countOk THEN count ELSE 0]
       ELSE p

\* The page is opened (again): useState, then the effect's fetchProducts.
Products_mount(ok, countOk) ==
    /\ screen = "list"
    /\ pg' = fetchProducts(pgInitial, products, ok, countOk)
    /\ UNCHANGED <<categories, admin_actions, nextRowId, recv, company_settings,
                   nextSettingsId, profile, invoiceVars, dbProductVars, dbOrderVars,
                   screen, items, tax_rate, pf, pd, sf, last>>

\* The pages the controls of Table offer: previous (disabled on page 1), one
\* button per page, next (disabled on the last page); rendered when there is
\* more than one page.
PageButtons(p) ==
    IF totalPages(p) > 1
    THEN (1..totalPages(p))
            \cup (IF p.page = 1 THEN {} ELSE {p.page - 1})
            \cup (IF p.page = totalPages(p) THEN {} ELSE {p.page + 1})
    ELSE {}

\* Table.handlePageChange -> Products.handlePaginationChange, then the effect.
Table_handlePageChange(page, ok, countOk) ==
    /\ screen = "list"
    /\ page \in PageButtons(pg)
    /\ page <= MaxPage
    /\ page # pg.page
    /\ pg' = fetchProducts([pg EXCEPT !.page = page], products, ok, countOk)
    /\ UNCHANGED <<categories, admin_actions, nextRowId, recv, company_settings,
                   nextSettingsId, profile, invoiceVars, dbProductVars, dbOrderVars,
                   screen, items, tax_rate, pf, pd, sf, last>>

\* Table.handleItemsPerPageChange: onPaginationChange(1, newPageSize).
Table_handleItemsPerPageChange(newPageSize, ok, countOk) ==
    /\ screen = "list"
    /\ newPageSize \in itemsPerPageOptions
    /\ newPageSize # pg.pageSize
    /\ pg' = fetchProducts([pg EXCEPT !.page = 1, !.pageSize = newPageSize],
                           products, ok, countOk)
    /\ UNCHANGED <<categories, admin_actions, nextRowId, recv, company_settings,
                   nextSettingsId, profile, invoiceVars, dbProductVars, dbOrderVars,
                   screen, items, tax_rate, pf, pd, sf, last>>

\* Table.handleSearch -> setSearchTerm, then the effect.
Table_handleSearch(localSearchValue, ok, countOk) ==
    /\ screen = "list"
    /\ localSearchValue # pg.searchTerm
    /\ pg' = fetchProducts([pg EXCEPT !.searchTerm = localSearchValue],
                           products, ok, countOk)
    /\ UNCHANGED <<categories, admin_actions, nextRowId, recv, company_settings,
                   nextSettingsId, profile, invoiceVars, dbProductVars, dbOrderVars,
                   screen, items, tax_rate, pf, pd, sf, last>>

ProductReferenced(pid) ==
    \E it \in order_items :
        \/ it.product_id = pid
        \/ \E v \in variants : v.id = it.variant_id /\ v.product_id = pid

\* product_variants.product_id REFERENCES products(id) ON DELETE CASCADE.
CascadeVariants(rows, pid) == {v \in rows : v.product_id # pid}

\* Products.handleDelete, after the operator has confirmed: the DELETE fires
\* the audit trigger for the row; a failure is only logged to the console.
Products_handleDelete(p) ==
    /\ screen = "list"
    /\ p \in products
    /\ LET log == log_admin_action(admin_actions, "DELETE", "products", <<p>>, NoRow)
       IN IF ProductReferenced(p.id) \/ log = << >>
          THEN /\ last' = Outcome("Products_handleDelete", "error")
               /\ UNCHANGED <<products, variants, admin_actions, pg>>
          ELSE /\ products' = products \ {p}
               /\ variants' = CascadeVariants(variants, p.id)
               /\ admin_actions' = log[1]
               /\ \E ok \in BOOLEAN, countOk \in BOOLEAN :
                     pg' = fetchProducts(pg, products', ok, countOk)
               /\ last' = Outcome("Products_handleDelete", "ok")
    /\ UNCHANGED <<recv, company_settings, nextSettingsId, profile, categories, nextRowId, invoiceVars, nextProductId, nextVariantId, uniqueDefault, dbOrderVars,
                   screen, items, tax_rate, pf, pd, sf>>

\* orders.customer_id REFERENCES customers(id), with no ON DELETE action.
CustomerReferenced(cid) == \E o \in orders : o.customer_id = cid

\* Customers.handleDelete, after the operator has confirmed.
Customers_handleDelete(c) ==
    /\ screen = "list"
    /\ c \in customers
    /\ LET log == log_admin_action(admin_actions, "DELETE", "customers", <<c>>, NoRow)
       IN IF CustomerReferenced(c.id) \/ log = << >>
          THEN /\ last' = Outcome("Customers_handleDelete", "error")
               /\ UNCHANGED <<customers, admin_actions>>
          ELSE /\ customers' = customers \ {c}
               /\ admin_actions' = log[1]
               /\ last' = Outcome("Customers_handleDelete", "ok")
    /\ UNCHANGED <<sessionVars, categories, nextRowId, invoiceVars, dbProductVars, orders, order_items, nextOrderId,
                   nextItemId, screen, items, tax_rate, pf, pd, sf>>

(***************************************************************************)
(* The store: product_variants.                                            *)
(***************************************************************************)
\* a + b stays inside the integer column's range (evaluated without leaving it).
FitsInteger(a, b) ==
    IF a > 0 /\ b > 0 THEN a <= MAX_INTEGER - b
    ELSE IF a < 0 /\ b < 0 THEN a >= MIN_INTEGER - b
    ELSE TRUE

\* ADD CONSTRAINT one_default_variant_per_product UNIQUE (product_id, is_default)
\* WHERE (is_default = true). PostgreSQL has no WHERE clause for a UNIQUE table
\* constraint, so a store built from the migration may be without it:
\* uniqueDefault says whether this store has it.
one_default_variant_per_product(row, rows) ==
    (uniqueDefault /\ row.is_default) =>
        ~ \E w \in rows : /\ w.id # row.id
                          /\ w.product_id = row.product_id
                          /\ w.is_default

\* What the store demands of a product_variants row that is written: quantity
\* and minimum_quantity are not null, minimum_quantity >= 0, price is null or
\* >= 0, one default per product. (There is no CHECK on quantity; the pages
\* write variants of a product that is stored.)
VariantChecks(row, rows) ==
    /\ IsNum(row.quantity)
    /\ IsNum(row.minimum_quantity) /\ row.minimum_quantity[1] >= 0
    /\ IsNum(row.price) => row.price[1] >= 0
    /\ one_default_variant_per_product(row, rows)

\* The stored form of a written row.
StoredVariant(row) ==
    [id |-> row.id, product_id |-> row.product_id,
     variant_name |-> row.variant_name, size |-> row.size, color |-> row.color,
     price |-> row.price, quantity |-> row.quantity[1],
     minimum_quantity |-> row.minimum_quantity[1], is_default |-> row.is_default]

\* The store as one value: the rows and the next fresh id.
Db(rows, next) == [rows |-> rows, next |-> next]

\* INSERT INTO product_variants: the store after the request (unchanged when
\* the request fails or a constraint rejects the row).
InsertVariant(db, data, ok) ==
    LET row == [data EXCEPT !.id = db.next]
    IN IF ok /\ VariantChecks(row, db.rows)
       THEN Db(db.rows \cup {StoredVariant(row)}, db.next + 1)
       ELSE db

\* UPDATE product_variants SET (all columns of data) WHERE id = data.id.
UpdateVariant(db, data, ok) ==
    IF ok /\ (\E w \in db.rows : w.id = data.id) /\ VariantChecks(data, db.rows)
    THEN Db({w \in db.rows : w.id # data.id} \cup {StoredVariant(data)}, db.next)
    ELSE db

\* Column defaults of product_variants for the columns an insert leaves out.
VariantDefaults(pid) ==
    [id |-> 0, product_id |-> pid, variant_name |-> NULL, size |-> NULL,
     color |-> NULL, price |-> NoNum, quantity |-> Some(0),
     minimum_quantity |-> Some(5), is_default |-> FALSE]

(***************************************************************************)
(* StockForm.tsx                                                           *)
(***************************************************************************)
\* .eq(column, value): a null column never matches; a null value is sent as
\* the text "null".
EqFilter(col, value) ==
    col # NULL /\ col = (IF value = NULL THEN "null" ELSE value)

\* .eq('product_id').eq('size').eq('color').single(): the row when exactly
\* one matches, otherwise nothing.
ExistingVariant(rows, pid, size, color) ==
    LET hits == {v \in rows : /\ v.product_id = pid
                              /\ EqFilter(v.size, TextOrNull(size))
                              /\ EqFilter(v.color, TextOrNull(color))}
    IN IF Cardinality(hits) = 1 THEN <<CHOOSE v \in hits : TRUE>> ELSE << >>

\* The quantity <input required min="1">: the form is not submitted otherwise.
StockFormValidNoMin(quantity) == TRUE
StockFormValid(quantity) == quantity >= 1

\* The writes of handleSubmit on the store db: update the matching variant or
\* insert a new one. The integer column rejects a sum outside its range.
ReceiveStock(db, pid, size, color, quantity, ok) ==
    LET existingVariant == ExistingVariant(db.rows, pid, size, color)
    IN IF existingVariant # << >>
       THEN LET v == existingVariant[1]
            IN IF ok /\ FitsInteger(v.quantity, quantity)
               THEN Db({w \in db.rows : w.id # v.id}
                         \cup {[v EXCEPT !.quantity = v.quantity + quantity]},
                       db.next)
               ELSE db
       ELSE InsertVariant(db,
                [VariantDefaults(pid) EXCEPT !.size = TextOrNull(size),
                                             !.color = TextOrNull(color),
                                             !.quantity = Some(quantity)],
                ok)

\* The write of handleSubmit is refused (by the backend or by a constraint).
ReceiveFails(db, pid, size, color, quantity, ok) ==
    LET existingVariant == ExistingVariant(db.rows, pid, size, color)
    IN IF existingVariant # << >>
       THEN ~(ok /\ FitsInteger(existingVariant[1].quantity, quantity))
       ELSE ~(ok /\ VariantChecks(
                  [VariantDefaults(pid) EXCEPT !.id = db.next,
                                               !.size = TextOrNull(size),
                                               !.color = TextOrNull(color),
                                               !.quantity = Some(quantity)],
                  db.rows))

\* useState<StockFormData>: the form as it is mounted (product_id 0: none).
sfClosed == [product_id |-> 0, size |-> "", color |-> "", quantity |-> 0]

OpenStockForm ==
    /\ screen = "list"
    /\ screen' = "stockForm"
    /\ sf' = sfClosed
    /\ last' = NoOutcome
    /\ UNCHANGED <<sideVars, invoiceVars, dbProductVars, dbOrderVars, items, tax_rate, pf, pd>>

\* handleInputChange (quantity: parseInt(value) || 0) and the product dropdown.
StockForm_handleInputChange(name, value) ==
    /\ screen = "stockForm"
    /\ sf' = [sf EXCEPT ![name] = value]
    /\ last' = NoOutcome
    /\ UNCHANGED <<sideVars, invoiceVars, dbProductVars, dbOrderVars, screen, items, tax_rate, pf, pd>>

\* How a submit of the form data f ends on the store db.
StockForm_status(db, f, ok) ==
    IF ~StockFormValid(f.quantity) \/ f.product_id = 0 THEN "validation"
    ELSE IF ReceiveFails(db, f.product_id, f.size, f.color, f.quantity, ok)
    THEN "error"
    ELSE "ok"

\* Submitting the form; ok is the backend's answer to the write.
StockForm_handleSubmit(ok) ==
    /\ screen = "stockForm"
    /\ LET e == ExistingVariant(variants, sf.product_id, sf.size, sf.color)
       IN IF e = << >> THEN nextVariantId <= MaxVariants
          ELSE FitsInteger(e[1].quantity, sf.quantity) =>
                   e[1].quantity + sf.quantity <= MaxStock
    /\ LET db == Db(variants, nextVariantId)
           status == StockForm_status(db, sf, ok)
           after == IF status = "validation" THEN db
                    ELSE ReceiveStock(db, sf.product_id, sf.size, sf.color,
                                      sf.quantity, ok)
       IN /\ variants' = after.rows
          /\ nextVariantId' = after.next
          /\ last' = Outcome("StockForm_handleSubmit", status)
          /\ IF status = "ok"
             THEN screen' = "list" /\ sf' = sfClosed
             ELSE UNCHANGED <<screen, sf>>
    /\ UNCHANGED <<sideVars, invoiceVars, products, nextProductId, uniqueDefault, dbOrderVars, items,
                   tax_rate, pf, pd>>

(***************************************************************************)
(* Inventory.tsx                                                           *)
(***************************************************************************)
\* handleQuantityChange: the range check, the sign check, then the update of
\* the one row; ok is the backend's answer to the update.
Inventory_handleQuantityChange(id, newQuantity, ok) ==
    /\ screen = "list"
    /\ IF newQuantity > MAX_INTEGER \/ newQuantity < MIN_INTEGER
       THEN /\ last' = Outcome("Inventory_handleQuantityChange", "validation")
            /\ UNCHANGED variants
       ELSE IF newQuantity < 0
       THEN /\ last' = Outcome("Inventory_handleQuantityChange", "validation")
            /\ UNCHANGED variants
       ELSE IF ok
       THEN /\ variants' = {IF v.id = id THEN [v EXCEPT !.quantity = newQuantity]
                            ELSE v : v \in variants}
            /\ last' = Outcome("Inventory_handleQuantityChange", "ok")
       ELSE /\ last' = Outcome("Inventory_handleQuantityChange", "error")
            /\ UNCHANGED variants
    /\ UNCHANGED <<sideVars, invoiceVars, products, nextProductId, nextVariantId, uniqueDefault,
                   dbOrderVars, screen, items, tax_rate, pf, pd, sf>>

(***************************************************************************)
(* Component state of the pages that are not mounted.                      *)
(***************************************************************************)
pfClosed == [price |-> NoNum, initial_stock |-> 0, minimum_stock |-> 5,
             hasVariants |-> FALSE, variants |-> << >>]
pdClosed == [product_id |-> 0, sku |-> "", price |-> NoNum, initial_stock |-> NoNum,
             minimum_stock |-> NoNum, hasVariants |-> FALSE, variants |-> << >>]

(***************************************************************************)
(* ProductForm.tsx (create)                                                *)
(***************************************************************************)
\* const defaultVariant (a variant of the editor; id 0: not stored yet)
defaultVariant ==
    [id |-> 0, variant_name |-> "", size |-> "", color |-> "", price |-> Some(0),
     quantity |-> Some(0), minimum_quantity |-> Some(5), is_default |-> FALSE]

\* prev.map((v, i) => i === index ? {...v, [field]: value} : v)
SetField(vs, index, field, value) ==
    [vs EXCEPT ![index] = [@ EXCEPT ![field] = value]]

\* prev.filter((_, i) => i !== index)
RemoveAt(vs, index) ==
    [i \in 1..(Len(vs) - 1) |-> IF i < index THEN vs[i] ELSE vs[i + 1]]

\* The radio button: prev.map((v, i) => ({...v, is_default: i === index}))
MarkDefault(vs, index) ==
    [i \in 1..Len(vs) |-> [vs[i] EXCEPT !.is_default = (i = index)]]

OpenProductForm ==
    /\ screen = "list"
    /\ nextProductId <= MaxProducts
    /\ screen' = "productForm"
    /\ pf' = pfClosed
    /\ last' = NoOutcome
    /\ UNCHANGED <<sideVars, invoiceVars, dbProductVars, dbOrderVars, items, tax_rate, pd, sf>>

\* handleInputChange for price, initial_stock (parseInt(value) || 0) and
\* minimum_stock.
ProductForm_handleInputChange(name, value) ==
    /\ screen = "productForm"
    /\ pf' = [pf EXCEPT ![name] = value]
    /\ last' = NoOutcome
    /\ UNCHANGED <<sideVars, invoiceVars, dbProductVars, dbOrderVars, screen, items, tax_rate, pd, sf>>

ProductForm_addVariant ==
    /\ screen = "productForm"
    /\ Len(pf.variants) < MaxFormVariants
    /\ pf' = [pf EXCEPT
                !.hasVariants = TRUE,
                !.variants = Append(@,
                    [defaultVariant EXCEPT
                        !.quantity = Some(pf.initial_stock),
                        !.minimum_quantity = Some(pf.minimum_stock),
                        !.price = Some(OrElse(pf.price, 0)),
                        !.is_default = (Len(pf.variants) = 0)])]
    /\ last' = NoOutcome
    /\ UNCHANGED <<sideVars, invoiceVars, dbProductVars, dbOrderVars, screen, items, tax_rate, pd, sf>>

\* The remove button is rendered when there is more than one variant.
ProductForm_removeVariant(index) ==
    /\ screen = "productForm"
    /\ Len(pf.variants) > 1
    /\ index \in 1..Len(pf.variants)
    /\ pf' = [pf EXCEPT !.variants = RemoveAt(@, index),
                        !.hasVariants = IF Len(pf.variants) = 1 THEN FALSE ELSE @]
    /\ last' = NoOutcome
    /\ UNCHANGED <<sideVars, invoiceVars, dbProductVars, dbOrderVars, screen, items, tax_rate, pd, sf>>

ProductForm_handleVariantChange(index, field, value) ==
    /\ screen = "productForm"
    /\ index \in 1..Len(pf.variants)
    /\ pf' = [pf EXCEPT !.variants = SetField(@, index, field, value)]
    /\ last' = NoOutcome
    /\ UNCHANGED <<sideVars, invoiceVars, dbProductVars, dbOrderVars, screen, items, tax_rate, pd, sf>>

ProductForm_setDefault(index) ==
    /\ screen = "productForm"
    /\ index \in 1..Len(pf.variants)
    /\ pf' = [pf EXCEPT !.variants = MarkDefault(@, index)]
    /\ last' = NoOutcome
    /\ UNCHANGED <<sideVars, invoiceVars, dbProductVars, dbOrderVars, screen, items, tax_rate, pd, sf>>

\* Constraint validation of the form before onSubmit runs: price is required
\* with min="0"; the stock inputs and the variants' number inputs have min="0"
\* (an empty number input is valid).
NotBelowMin(o) == IsNum(o) => o[1] >= 0
ProductFormValid ==
    /\ IsNum(pf.price) /\ pf.price[1] >= 0
    /\ pf.initial_stock >= 0
    /\ pf.minimum_stock >= 0
    /\ \A i \in 1..Len(pf.variants) :
          /\ NotBelowMin(pf.variants[i].price)
          /\ NotBelowMin(pf.variants[i].quantity)
          /\ NotBelowMin(pf.variants[i].minimum_quantity)

\* products: CHECK (initial_stock >= 0), CHECK (minimum_stock >= 0), NOT NULL.
ProductChecks(row) ==
    /\ IsNum(row.price)
    /\ IsNum(row.initial_stock) /\ row.initial_stock[1] >= 0
    /\ IsNum(row.minimum_stock) /\ row.minimum_stock[1] >= 0

\* variantData of the create form for the variant v.
CreateVariantData(pid, v) ==
    [id |-> 0, product_id |-> pid,
     variant_name |-> v.variant_name,
     size |-> TextOrNull(v.size),
     color |-> TextOrNull(v.color),
     price |-> Some(OrElse(v.price, ToNumber(pf.price))),
     quantity |-> Some(OrElse(v.quantity, pf.initial_stock)),
     minimum_quantity |-> Some(OrElse(v.minimum_quantity, pf.minimum_stock)),
     is_default |-> v.is_default]

\* The default variant the create form inserts for a product without variants.
BookkeepingVariantNotDefault(pid, quantity, minimum_quantity) ==
    [VariantDefaults(pid) EXCEPT !.quantity = quantity,
                                 !.minimum_quantity = minimum_quantity]
BookkeepingVariant(pid, quantity, minimum_quantity) ==
    [VariantDefaults(pid) EXCEPT !.quantity = quantity,
                                 !.minimum_quantity = minimum_quantity,
                                 !.is_default = TRUE]

\* checkSkuExists on the create route (no id): some product has the SKU. A
\* lookup that fails (lookupOk false) is caught and answers false.
ProductForm_checkSkuExists(sku, lookupOk) ==
    lookupOk /\ \E p \in products : p.sku = sku

\* products.sku text UNIQUE NOT NULL: no other row has the SKU.
products_sku_key(id, sku, rows) == ~ \E p \in rows : p.id # id /\ p.sku = sku

RECURSIVE InsertAll(_, _, _, _)
\* Promise.all over the variants' inserts; the results are not looked at.
\* failed: the indices of the requests the backend fails.
InsertAll(db, datas, i, failed) ==
    IF i > Len(datas) THEN db
    ELSE InsertAll(InsertVariant(db, datas[i], i \notin failed), datas, i + 1, failed)

\* handleSubmit without an id (create). lookupOk and productOk: the backend's
\* answers to the SKU lookup and to the product insert; failed: the variant
\* inserts it fails.
ProductForm_handleSubmit(sku, lookupOk, productOk, failed) ==
    /\ screen = "productForm"
    /\ nextProductId <= MaxProducts
    /\ nextVariantId + Max(Len(pf.variants), 1) - 1 <= MaxVariants
    /\ IF ~ProductFormValid
       THEN /\ last' = Outcome("ProductForm_handleSubmit", "validation")
            /\ UNCHANGED <<dbProductVars, screen, pf>>
       ELSE IF ProductForm_checkSkuExists(sku, lookupOk)
       THEN /\ last' = Outcome("ProductForm_handleSubmit", "sku")
            /\ UNCHANGED <<dbProductVars, screen, pf>>
       ELSE IF ~(productOk /\ products_sku_key(nextProductId, sku, products))
       THEN /\ last' = Outcome("ProductForm_handleSubmit", "error")
            /\ UNCHANGED <<dbProductVars, screen, pf>>
       ELSE LET productId == nextProductId
                db == Db(variants, nextVariantId)
            IN /\ products' = products \cup
                      {[id |-> productId, sku |-> sku, price |-> pf.price[1],
                        initial_stock |-> pf.initial_stock,
                        minimum_stock |-> pf.minimum_stock]}
               /\ nextProductId' = nextProductId + 1
               /\ IF pf.hasVariants /\ Len(pf.variants) > 0
                  THEN LET datas == [i \in 1..Len(pf.variants) |->
                                        CreateVariantData(productId, pf.variants[i])]
                           after == InsertAll(db, datas, 1, failed)
                       IN /\ variants' = after.rows
                          /\ nextVariantId' = after.next
                          /\ screen' = "list"
                          /\ pf' = pfClosed
                          /\ last' = Outcome("ProductForm_handleSubmit", "ok")
                  ELSE LET after == InsertVariant(db,
                                        BookkeepingVariant(productId,
                                            Some(pf.initial_stock),
                                            Some(pf.minimum_stock)),
                                        1 \notin failed)
                       IN /\ variants' = after.rows
                          /\ nextVariantId' = after.next
                          /\ IF after = db
                             THEN /\ last' = Outcome("ProductForm_handleSubmit", "error")
                                  /\ UNCHANGED <<screen, pf>>
                             ELSE /\ screen' = "list"
                                  /\ pf' = pfClosed
                                  /\ last' = Outcome("ProductForm_handleSubmit", "ok")
    /\ UNCHANGED <<sideVars, invoiceVars, uniqueDefault, dbOrderVars, items, tax_rate, pd, sf>>

(***************************************************************************)
(* ProductDetails (the product page with its editor)                       *)
(***************************************************************************)
\* A stored variant as the editor holds it.
EditorVariant(v) ==
    [id |-> v.id, variant_name |-> v.variant_name, size |-> v.size,
     color |-> v.color, price |-> v.price, quantity |-> Some(v.quantity),
     minimum_quantity |-> Some(v.minimum_quantity), is_default |-> v.is_default]

IsText(t) == t # NULL /\ t # ""

\* fetchProduct, then the Edit button: product, editedProduct, variants,
\* hasVariants.
OpenProductDetails(p) ==
    /\ screen = "list"
    /\ p \in products
    /\ LET vs == VariantsOf(p.id)
       IN pd' = [product_id |-> p.id,
                 sku |-> p.sku,
                 price |-> Some(p.price),
                 initial_stock |-> Some(p.initial_stock),
                 minimum_stock |-> Some(p.minimum_stock),
                 variants |-> [i \in 1..Len(vs) |-> EditorVariant(vs[i])],
                 hasVariants |-> \E i \in 1..Len(vs) :
                                    \/ IsText(vs[i].variant_name)
                                    \/ IsText(vs[i].size)
                                    \/ IsText(vs[i].color)]
    /\ screen' = "productDetails"
    /\ last' = NoOutcome
    /\ UNCHANGED <<sideVars, invoiceVars, dbProductVars, dbOrderVars, items, tax_rate, pf, sf>>

\* handleInputChange for price, initial_stock and minimum_stock: parseInt(value).
ProductDetails_handleInputChange(name, value) ==
    /\ screen = "productDetails"
    /\ pd' = [pd EXCEPT ![name] = value]
    /\ last' = NoOutcome
    /\ UNCHANGED <<sideVars, invoiceVars, dbProductVars, dbOrderVars, screen, items, tax_rate, pf, sf>>

\* The variants' inputs, remove buttons and radio buttons are rendered when
\* hasVariants.
ProductDetails_handleVariantChange(index, field, value) ==
    /\ screen = "productDetails"
    /\ pd.hasVariants
    /\ index \in 1..Len(pd.variants)
    /\ pd' = [pd EXCEPT !.variants = SetField(@, index, field, value)]
    /\ last' = NoOutcome
    /\ UNCHANGED <<sideVars, invoiceVars, dbProductVars, dbOrderVars, screen, items, tax_rate, pf, sf>>

ProductDetails_addVariant ==
    /\ screen = "productDetails"
    /\ Len(pd.variants) < MaxFormVariants
    /\ pd' = [pd EXCEPT
                !.hasVariants = TRUE,
                !.variants = Append(@,
                    [defaultVariant EXCEPT
                        !.quantity = Some(OrElse(pd.initial_stock, 0)),
                        !.minimum_quantity = Some(OrElse(pd.minimum_stock, 5)),
                        !.price = Some(OrElse(pd.price, 0)),
                        !.is_default = (Len(pd.variants) = 0)])]
    /\ last' = NoOutcome
    /\ UNCHANGED <<sideVars, invoiceVars, dbProductVars, dbOrderVars, screen, items, tax_rate, pf, sf>>

ProductDetails_removeVariant(index) ==
    /\ screen = "productDetails"
    /\ pd.hasVariants
    /\ Len(pd.variants) > 1
    /\ index \in 1..Len(pd.variants)
    /\ pd' = [pd EXCEPT !.variants = RemoveAt(@, index),
                        !.hasVariants = IF Len(pd.variants) = 1 THEN FALSE ELSE @]
    /\ last' = NoOutcome
    /\ UNCHANGED <<sideVars, invoiceVars, dbProductVars, dbOrderVars, screen, items, tax_rate, pf, sf>>

ProductDetails_setDefault(index) ==
    /\ screen = "productDetails"
    /\ pd.hasVariants
    /\ index \in 1..Len(pd.variants)
    /\ pd' = [pd EXCEPT !.variants = MarkDefault(@, index)]
    /\ last' = NoOutcome
    /\ UNCHANGED <<sideVars, invoiceVars, dbProductVars, dbOrderVars, screen, items, tax_rate, pf, sf>>

\* variantData of handleSave for the editor's variant v.
SaveVariantData(pid, v) ==
    [id |-> v.id, product_id |-> pid,
     variant_name |-> v.variant_name,
     size |-> TextOrNull(v.size),
     color |-> TextOrNull(v.color),
     price |-> v.price,
     quantity |-> v.quantity,
     minimum_quantity |-> v.minimum_quantity,
     is_default |-> v.is_default]

\* One request of the Promise.all: update a stored variant, insert a new one.
SaveVariant(db, data, ok) ==
    IF data.id # 0 THEN UpdateVariant(db, data, ok) ELSE InsertVariant(db, data, ok)

RECURSIVE SaveAll(_, _, _, _)
\* The requests of Promise.all reach the store in the order given; their
\* results are not looked at.
SaveAll(db, datas, order, failed) ==
    IF order = << >> THEN db
    ELSE SaveAll(SaveVariant(db, datas[Head(order)], Head(order) \notin failed),
                 datas, Tail(order), failed)

\* The orders in which n concurrent requests can reach the store.
Orders(n) == {f \in [1..n -> 1..n] : \A i, j \in 1..n : i # j => f[i] # f[j]}

\* DELETE FROM product_variants WHERE product_id = pid; order_items.variant_id
\* references the rows without ON DELETE, so a referenced row blocks it.
DeleteVariantsOf(db, pid, ok) ==
    IF ok /\ ~ \E it \in order_items, v \in db.rows :
                   v.product_id = pid /\ it.variant_id = v.id
    THEN Db({v \in db.rows : v.product_id # pid}, db.next)
    ELSE db

\* A save that would also rewrite the unit price of the product's stored order
\* items (prices read through the product instead of being copied).
ProductDetails_handleSaveRepricing(lookupOk, productOk, order, failed) ==
    /\ screen = "productDetails"
    /\ order \in Orders(Len(pd.variants))
    /\ failed = {}
    /\ productOk /\ ProductChecks(pd)
    /\ products' = {IF p.id = pd.product_id THEN [p EXCEPT !.price = pd.price[1]]
                    ELSE p : p \in products}
    /\ order_items' = {IF it.product_id = pd.product_id
                       THEN [it EXCEPT !.price = pd.price[1]]
                       ELSE it : it \in order_items}
    /\ last' = Outcome("ProductDetails_handleSave", "ok")
    /\ UNCHANGED <<sideVars, invoiceVars, variants, nextProductId, nextVariantId, uniqueDefault,
                   orders, nextOrderId, nextItemId, customers, screen, items, tax_rate,
                   pf, pd, sf>>

\* checkSkuExists of the editor: another product has the SKU. A lookup that
\* fails is caught and answers false.
ProductDetails_checkSkuExists(sku, lookupOk) ==
    lookupOk /\ \E p \in products : p.sku = sku /\ p.id # pd.product_id

\* handleSave. lookupOk and productOk: the backend's answers to the SKU lookup
\* and to the product update; order and failed: the arrival order of the
\* variant requests and those the backend fails (for a product without
\* variants request 1 is the delete, 2 the insert).
ProductDetails_handleSave(lookupOk, productOk, order, failed) ==
    /\ screen = "productDetails"
    /\ LET n == Len(pd.variants)
           inserts == IF pd.hasVariants
                      THEN Cardinality({i \in 1..n : pd.variants[i].id = 0})
                      ELSE 1
       IN /\ order \in Orders(n)
          /\ nextVariantId + inserts - 1 <= MaxVariants
    /\ IF pd.hasVariants /\ ~ \E i \in 1..Len(pd.variants) : pd.variants[i].is_default
       THEN /\ last' = Outcome("ProductDetails_handleSave", "validation")
            /\ UNCHANGED <<dbProductVars>>
       ELSE IF ProductDetails_checkSkuExists(pd.sku, lookupOk)
       THEN /\ last' = Outcome("ProductDetails_handleSave", "sku")
            /\ UNCHANGED <<dbProductVars>>
       ELSE IF ~(/\ productOk
                 /\ ProductChecks(pd)
                 /\ products_sku_key(pd.product_id, pd.sku, products))
       THEN /\ last' = Outcome("ProductDetails_handleSave", "error")
            /\ UNCHANGED <<dbProductVars>>
       ELSE LET db == Db(variants, nextVariantId)
                datas == [i \in 1..Len(pd.variants) |->
                             SaveVariantData(pd.product_id, pd.variants[i])]
                after ==
                    IF pd.hasVariants
                    THEN SaveAll(db, datas, order, failed)
                    ELSE InsertVariant(
                             DeleteVariantsOf(db, pd.product_id, 1 \notin failed),
                             BookkeepingVariant(pd.product_id, pd.initial_stock,
                                                pd.minimum_stock),
                             2 \notin failed)
            IN /\ products' = {IF p.id = pd.product_id
                               THEN [p EXCEPT !.sku = pd.sku,
                                              !.price = pd.price[1],
                                              !.initial_stock = pd.initial_stock[1],
                                              !.minimum_stock = pd.minimum_stock[1]]
                               ELSE p : p \in products}
               /\ variants' = after.rows
               /\ nextVariantId' = after.next
               /\ UNCHANGED nextProductId
               /\ last' = Outcome("ProductDetails_handleSave", "ok")
    /\ UNCHANGED <<sideVars, invoiceVars, uniqueDefault, dbOrderVars, screen, items, tax_rate, pf, pd, sf>>

\* Leaving a page for the lists.
BackToList ==
    /\ screen # "list"
    /\ screen' = "list"
    /\ items' = << >>
    /\ tax_rate' = DefaultTaxRate
    /\ pf' = pfClosed
    /\ pd' = pdClosed
    /\ sf' = sfClosed
    /\ last' = NoOutcome
    /\ UNCHANGED <<sideVars, invoiceVars, dbProductVars, dbOrderVars>>

(***************************************************************************)
(* Order entry over a fixed catalogue.                                     *)
(***************************************************************************)
\* A catalogue the product pages can produce: product 1 with its bookkeeping
\* variant only; product 2 with two named variants, the first without a price
\* of its own, the second marked as the default.
CatalogueProducts ==
    {[id |-> 1, sku |-> "S1", price |-> 10 * Dollar, initial_stock |-> 5,
      minimum_stock |-> 5],
     [id |-> 2, sku |-> "S2", price |-> 5 * Dollar, initial_stock |-> 0,
      minimum_stock |-> 5]}
CatalogueVariants ==
    {[id |-> 1, product_id |-> 1, variant_name |-> NULL, size |-> NULL,
      color |-> NULL, price |-> NoNum, quantity |-> 5, minimum_quantity |-> 5,
      is_default |-> TRUE],
     [id |-> 2, product_id |-> 2, variant_name |-> "A", size |-> NULL,
      color |-> NULL, price |-> NoNum, quantity |-> 3, minimum_quantity |-> 5,
      is_default |-> FALSE],
     [id |-> 3, product_id |-> 2, variant_name |-> "B", size |-> "M",
      color |-> "Red", price |-> Some(7 * Dollar), quantity |-> 2,
      minimum_quantity |-> 5, is_default |-> TRUE]}

QuantityInputs == {Some(0), Some(2), NoNum}
TaxRateInputs == {0, 100}
CatalogueCustomers == {[id |-> 1, name |-> "C1"]}

\* Inventory.handleQuantityChange of another operator session, whose outcome
\* this session does not see: the accepted override of a variant quantity.
OtherSession_handleQuantityChange(id, newQuantity) ==
    /\ newQuantity >= 0 /\ newQuantity <= MAX_INTEGER
    /\ \E v \in variants : v.id = id /\ v.quantity # newQuantity
    /\ variants' = {IF v.id = id THEN [v EXCEPT !.quantity = newQuantity]
                    ELSE v : v \in variants}
    /\ UNCHANGED <<sideVars, invoiceVars, products, nextProductId, nextVariantId, uniqueDefault,
                   dbOrderVars, screen, items, tax_rate, pf, pd, sf, last>>

(***************************************************************************)
(* StockForm.handleSubmit as the two requests it makes, for sessions that  *)
(* receive stock at the same time.                                         *)
(***************************************************************************)
\* The form both sessions fill in: product, size and colour of the variant.
ReceiveTarget == [product_id |-> 1, size |-> "M", color |-> "Red"]

\* The quantity an increment applied by the store would write.
ReceivedQuantityAtomic(existingVariant, stored, quantity) ==
    stored.quantity + quantity

\* quantity: existingVariant.quantity + formData.quantity
ReceivedQuantity(existingVariant, stored, quantity) ==
    existingVariant.quantity + quantity

\* handleSubmit up to the answer of the select: the variant is looked up and
\* the row read is kept for the write.
StockForm_lookup(s, quantity) ==
    /\ recv[s].pc = "idle"
    /\ recv[s].rounds < MaxReceives
    /\ StockFormValid(quantity)
    /\ recv' = [recv EXCEPT ![s] =
                   [@ EXCEPT !.pc = "write",
                             !.quantity = quantity,
                             !.existingVariant =
                                 ExistingVariant(variants, ReceiveTarget.product_id,
                                                 ReceiveTarget.size, ReceiveTarget.color),
                             !.status = "none",
                             !.rounds = @ + 1]]
    /\ UNCHANGED <<categories, admin_actions, nextRowId, company_settings, nextSettingsId,
                   profile, pg, invoiceVars, dbProductVars, dbOrderVars, screen, items,
                   tax_rate, pf, pd, sf, last>>

\* handleSubmit from the answer of the select on: the update of the variant
\* read, or the insert of a new one, then navigate('/inventory').
StockForm_write(s, ok) ==
    /\ recv[s].pc = "write"
    /\ LET e == recv[s].existingVariant
           q == recv[s].quantity
       IN IF e # << >>
          THEN IF ok /\ FitsInteger(e[1].quantity, q)
               THEN /\ variants' =
                          {IF v.id = e[1].id
                           THEN [v EXCEPT !.quantity = ReceivedQuantity(e[1], v, q)]
                           ELSE v : v \in variants}
                    /\ recv' = [recv EXCEPT ![s] =
                                   [@ EXCEPT !.pc = "idle", !.status = "ok",
                                             !.accepted = @ + q]]
                    /\ UNCHANGED nextVariantId
               ELSE /\ recv' = [recv EXCEPT ![s] =
                                   [@ EXCEPT !.pc = "idle", !.status = "error"]]
                    /\ UNCHANGED <<variants, nextVariantId>>
          ELSE LET db == Db(variants, nextVariantId)
                   after == InsertVariant(db,
                                [VariantDefaults(ReceiveTarget.product_id) EXCEPT
                                    !.size = TextOrNull(ReceiveTarget.size),
                                    !.color = TextOrNull(ReceiveTarget.color),
                                    !.quantity = Some(q)],
                                ok)
               IN /\ variants' = after.rows
                  /\ nextVariantId' = after.next
                  /\ recv' = [recv EXCEPT ![s] =
                                 [@ EXCEPT !.pc = "idle",
                                           !.status = IF after = db THEN "error" ELSE "ok",
                                           !.accepted = IF after = db THEN @ ELSE @ + q]]
    /\ UNCHANGED <<categories, admin_actions, nextRowId, company_settings, nextSettingsId,
                   profile, pg, invoiceVars, products, nextProductId, uniqueDefault,
                   dbOrderVars, screen, items, tax_rate, pf, pd, sf, last>>

(***************************************************************************)
(* Profile: the company settings.                                          *)
(***************************************************************************)
defaultCompanySettings == [name |-> "My Company"]

\* useEffect on mount, fetchCompanySettings up to the answer of
\* select('*').limit(1).maybeSingle(): any one row, or none.  A row is put in
\* companySettings at once; with none the default row is inserted next.
Profile_fetchCompanySettings(s, ok) ==
    /\ profile[s].pc = "closed"
    /\ IF ~ok
       THEN profile' = [profile EXCEPT ![s] = [@ EXCEPT !.pc = "failed"]]
       ELSE IF company_settings = {}
       THEN profile' = [profile EXCEPT ![s] = [@ EXCEPT !.pc = "inserting"]]
       ELSE \E row \in company_settings :
               profile' = [profile EXCEPT ![s] =
                              [pc |-> "loaded", id |-> row.id, name |-> row.name,
                               data |-> <<row>>]]
    /\ UNCHANGED <<categories, admin_actions, nextRowId, recv, company_settings,
                   nextSettingsId, pg, invoiceVars, dbProductVars, dbOrderVars, screen,
                   items, tax_rate, pf, pd, sf, last>>

\* fetchCompanySettings from the empty answer on:
\* insert([defaultCompanySettings]).select().single().
Profile_insertDefault(s, ok) ==
    /\ profile[s].pc = "inserting"
    /\ IF ok
       THEN LET row == [id |-> nextSettingsId, name |-> defaultCompanySettings.name]
            IN /\ company_settings' = company_settings \cup {row}
               /\ nextSettingsId' = nextSettingsId + 1
               /\ profile' = [profile EXCEPT ![s] =
                                 [pc |-> "loaded", id |-> row.id, name |-> row.name,
                                  data |-> <<row>>]]
       ELSE /\ profile' = [profile EXCEPT ![s] = [@ EXCEPT !.pc = "failed"]]
            /\ UNCHANGED <<company_settings, nextSettingsId>>
    /\ UNCHANGED <<categories, admin_actions, nextRowId, recv, pg, invoiceVars,
                   dbProductVars, dbOrderVars, screen, items, tax_rate, pf, pd, sf, last>>

Profile_handleCompanyInputChange(s, value) ==
    /\ profile[s].pc # "closed"
    /\ profile[s].name # value
    /\ profile' = [profile EXCEPT ![s] = [@ EXCEPT !.name = value]]
    /\ UNCHANGED <<categories, admin_actions, nextRowId, recv, company_settings,
                   nextSettingsId, pg, invoiceVars, dbProductVars, dbOrderVars, screen,
                   items, tax_rate, pf, pd, sf, last>>

\* upsert([{...companySettings}]) on the primary key: the row of that id is
\* updated, a row is inserted when there is none; the id '' of a profile that
\* never loaded is no uuid and the request fails.
company_settings_upsert(rows, row) ==
    IF \E r \in rows : r.id = row.id
    THEN {IF r.id = row.id THEN row ELSE r : r \in rows}
    ELSE rows \cup {row}

Profile_handleSaveCompanySettings(s, ok) ==
    /\ profile[s].pc # "closed"
    /\ IF ok /\ profile[s].id # 0
       THEN company_settings' =
                company_settings_upsert(company_settings,
                                        [id |-> profile[s].id, name |-> profile[s].name])
       ELSE UNCHANGED company_settings
    /\ UNCHANGED <<categories, admin_actions, nextRowId, recv, nextSettingsId, profile, pg,
                   invoiceVars, dbProductVars, dbOrderVars, screen, items, tax_rate, pf,
                   pd, sf, last>>

\* The session leaves the profile page.
Profile_unmount(s) ==
    /\ profile[s].pc \in {"loaded", "failed"}
    /\ profile' = [profile EXCEPT ![s] = profileClosed]
    /\ UNCHANGED <<categories, admin_actions, nextRowId, recv, company_settings,
                   nextSettingsId, pg, invoiceVars, dbProductVars, dbOrderVars, screen,
                   items, tax_rate, pf, pd, sf, last>>

InitOrder ==
    /\ products = CatalogueProducts
    /\ variants = CatalogueVariants
    /\ nextProductId = 3
    /\ nextVariantId = 4
    /\ uniqueDefault \in BOOLEAN
    /\ orders = {}
    /\ order_items = {}
    /\ nextOrderId = 1
    /\ nextItemId = 1
    /\ customers = CatalogueCustomers
    /\ num = Amount(0, 0)
    /\ words = << >>
    /\ SideInit
    /\ screen = "list"
    /\ items = << >>
    /\ tax_rate = DefaultTaxRate
    /\ pf = pfClosed
    /\ pd = pdClosed
    /\ sf = sfClosed
    /\ last = NoOutcome

NextOrder ==
    \/ OpenOrderForm
    \/ OpenOrderDetails
    \/ BackToList
    \/ addItem
    \/ \E index \in 1..MaxLines : removeItem(index)
    \/ \E index \in 1..MaxLines, p \in products : handleProductChange(index, p)
    \/ \E index \in 1..MaxLines, v \in variants : handleVariantChange(index, v)
    \/ \E index \in 1..MaxLines, q \in QuantityInputs : handleQuantityChange(index, q)
    \/ \E rate \in TaxRateInputs : setTaxRate(rate)
    \/ \E customer \in {c.id : c \in customers} \cup {0}, addressComplete \in BOOLEAN,
          orderOk \in BOOLEAN, itemsOk \in BOOLEAN :
          OrderForm_handleSubmit(customer, addressComplete, orderOk, itemsOk)
    \/ \E o \in orders, s \in Statuses : handleStatusChange(o, s)
    \/ \E p \in products : Products_handleDelete(p)
    \/ \E c \in customers : Customers_handleDelete(c)

SpecOrder == InitOrder /\ [][NextOrder]_vars

(***************************************************************************)
(* Price changes after an order was stored.                                *)
(***************************************************************************)
\* The store after an order of 2 x variant A of product 1 at 10%: the variant
\* has no price of its own, so the line carries the base price 10.00.
SnapshotProducts ==
    {[id |-> 1, sku |-> "S1", price |-> 10 * Dollar, initial_stock |-> 5,
      minimum_stock |-> 5]}
SnapshotVariants ==
    {[id |-> 1, product_id |-> 1, variant_name |-> "A", size |-> NULL,
      color |-> NULL, price |-> NoNum, quantity |-> 5, minimum_quantity |-> 5,
      is_default |-> TRUE]}
SnapshotLines ==
    <<[product_id |-> 1, variant_id |-> 1, quantity |-> Some(2),
       price |-> Some(10 * Dollar)]>>
SnapshotOrder ==
    StoredOrder([id |-> 1, customer_id |-> 1, status |-> "pending",
                 subtotal_amount |-> calculateSubtotal(SnapshotLines),
                 tax_amount |-> TaxOf(calculateSubtotal(SnapshotLines), DefaultTaxRate),
                 shipping_amount |-> shipping_amount,
                 discount_amount |-> discount_amount])
SnapshotItems ==
    {StoredItem([id |-> i, order_id |-> 1, product_id |-> SnapshotLines[i].product_id,
                 variant_id |-> SnapshotLines[i].variant_id,
                 quantity |-> SnapshotLines[i].quantity,
                 price |-> SnapshotLines[i].price]) : i \in 1..Len(SnapshotLines)}

\* The prices the operator types into the product editor.
BasePriceInputs == {<<"price", Some(12 * Dollar)>>}
VariantPriceInputs == {<<"price", Some(7 * Dollar)>>, <<"price", NoNum>>}

InitSnapshot ==
    /\ products = SnapshotProducts
    /\ variants = SnapshotVariants
    /\ nextProductId = 2
    /\ nextVariantId = 2
    /\ uniqueDefault \in BOOLEAN
    /\ orders = {SnapshotOrder}
    /\ order_items = SnapshotItems
    /\ nextOrderId = 2
    /\ nextItemId = 2
    /\ customers = CatalogueCustomers
    /\ num = Amount(0, 0)
    /\ words = << >>
    /\ SideInit
    /\ screen = "list"
    /\ items = << >>
    /\ tax_rate = DefaultTaxRate
    /\ pf = pfClosed
    /\ pd = pdClosed
    /\ sf = sfClosed
    /\ last = NoOutcome

NextSnapshot ==
    \/ \E p \in products : OpenProductDetails(p)
    \/ \E in \in BasePriceInputs : ProductDetails_handleInputChange(in[1], in[2])
    \/ \E i \in 1..MaxFormVariants, in \in VariantPriceInputs :
          ProductDetails_handleVariantChange(i, in[1], in[2])
    \/ \E productOk \in BOOLEAN, order \in Orders(Len(pd.variants)),
          failed \in SUBSET (1..MaxFormVariants) :
          ProductDetails_handleSave(TRUE, productOk, order, failed)
    \/ \E p \in products : Products_handleDelete(p)
    \/ OpenOrderDetails
    \/ \E o \in orders, st \in Statuses : handleStatusChange(o, st)
    \/ BackToList

SpecSnapshot == InitSnapshot /\ [][NextSnapshot]_vars

(***************************************************************************)
(* Amounts in words on the invoice.                                        *)
(***************************************************************************)
\* The amounts spelled out: every integer up to MaxSmall, the boundaries of
\* the hundreds, thousands and millions, each with and without a fraction.
MaxSmall == 21
WholeInputs ==
    (0..MaxSmall) \cup
    {30, 45, 99, 100, 101, 110, 111, 120, 999, 1000, 1001, 1010, 1100, 1234, 10000,
     12345, 100000, 999999, 1000000, 1000001, 1001000, 1234567, 20000000, 100000000,
     123456789, 999999999}
FractionInputs == {0, 500}
AmountInputs == {Amount(i, f) : i \in WholeInputs, f \in FractionInputs}

InitWords ==
    /\ products = CatalogueProducts
    /\ variants = CatalogueVariants
    /\ nextProductId = 3
    /\ nextVariantId = 4
    /\ uniqueDefault = FALSE
    /\ orders = {}
    /\ order_items = {}
    /\ nextOrderId = 1
    /\ nextItemId = 1
    /\ customers = CatalogueCustomers
    /\ num \in AmountInputs
    /\ words = << >>
    /\ SideInit
    /\ screen = "orderDetails"
    /\ items = << >>
    /\ tax_rate = DefaultTaxRate
    /\ pf = pfClosed
    /\ pd = pdClosed
    /\ sf = sfClosed
    /\ last = NoOutcome

NextWords == printInvoice

SpecWords == InitWords /\ [][NextWords]_vars

(***************************************************************************)
(* Product creation and editing, from an empty store.                      *)
(***************************************************************************)
\* What the operator types into the product form, the product editor and a
\* variant's inputs.
Skus == {"SKU-1"}
ProductFormInputs == {<<"price", Some(10 * Dollar)>>, <<"initial_stock", 4>>}
ProductDetailsInputs == {<<"price", Some(-1 * Dollar)>>}
VariantInputs == {<<"size", "M">>, <<"quantity", Some(-1)>>}

InitProduct ==
    /\ products = {}
    /\ variants = {}
    /\ nextProductId = 1
    /\ nextVariantId = 1
    /\ uniqueDefault \in BOOLEAN
    /\ orders = {}
    /\ order_items = {}
    /\ nextOrderId = 1
    /\ nextItemId = 1
    /\ customers = {}
    /\ num = Amount(0, 0)
    /\ words = << >>
    /\ SideInit
    /\ screen = "list"
    /\ items = << >>
    /\ tax_rate = DefaultTaxRate
    /\ pf = pfClosed
    /\ pd = pdClosed
    /\ sf = sfClosed
    /\ last = NoOutcome

NextProduct ==
    \/ OpenProductForm
    \/ \E in \in ProductFormInputs : ProductForm_handleInputChange(in[1], in[2])
    \/ ProductForm_addVariant
    \/ \E i \in 1..MaxFormVariants : ProductForm_removeVariant(i)
    \/ \E i \in 1..MaxFormVariants, in \in VariantInputs :
          ProductForm_handleVariantChange(i, in[1], in[2])
    \/ \E i \in 1..MaxFormVariants : ProductForm_setDefault(i)
    \/ \E sku \in Skus, productOk \in BOOLEAN, failed \in SUBSET (1..MaxFormVariants) :
          ProductForm_handleSubmit(sku, TRUE, productOk, failed)
    \/ \E p \in products : OpenProductDetails(p)
    \/ \E in \in ProductDetailsInputs : ProductDetails_handleInputChange(in[1], in[2])
    \/ ProductDetails_addVariant
    \/ \E i \in 1..MaxFormVariants : ProductDetails_removeVariant(i)
    \/ \E i \in 1..MaxFormVariants, in \in VariantInputs :
          ProductDetails_handleVariantChange(i, in[1], in[2])
    \/ \E i \in 1..MaxFormVariants : ProductDetails_setDefault(i)
    \/ \E productOk \in BOOLEAN, order \in Orders(Len(pd.variants)),
          failed \in SUBSET (1..MaxFormVariants) :
          ProductDetails_handleSave(TRUE, productOk, order, failed)
    \/ BackToList

SpecProduct == InitProduct /\ [][NextProduct]_vars

(***************************************************************************)
(* Stock receipts and overrides for one product.                           *)
(***************************************************************************)
\* The store after a product is created with initial_stock 4 and no variants.
StockProducts ==
    {[id |-> 1, sku |-> "SKU-1", price |-> 10 * Dollar, initial_stock |-> 4,
      minimum_stock |-> 5]}
StockVariants ==
    {StoredVariant([BookkeepingVariant(1, Some(4), Some(5)) EXCEPT !.id = 1])}

StockFormInputs ==
    {<<"product_id", 1>>, <<"size", "M">>, <<"color", "Red">>, <<"quantity", -1>>,
     <<"quantity", 1>>, <<"quantity", 2>>}
OverrideInputs == {-1, 0, MAX_INTEGER}

InitStock ==
    /\ products = StockProducts
    /\ variants = StockVariants
    /\ nextProductId = 2
    /\ nextVariantId = 2
    /\ uniqueDefault \in BOOLEAN
    /\ orders = {}
    /\ order_items = {}
    /\ nextOrderId = 1
    /\ nextItemId = 1
    /\ customers = {}
    /\ num = Amount(0, 0)
    /\ words = << >>
    /\ SideInit
    /\ screen = "list"
    /\ items = << >>
    /\ tax_rate = DefaultTaxRate
    /\ pf = pfClosed
    /\ pd = pdClosed
    /\ sf = sfClosed
    /\ last = NoOutcome

NextStock ==
    \/ OpenStockForm
    \/ \E in \in StockFormInputs : StockForm_handleInputChange(in[1], in[2])
    \/ \E ok \in BOOLEAN : StockForm_handleSubmit(ok)
    \/ \E v \in variants, q \in OverrideInputs, ok \in BOOLEAN :
          Inventory_handleQuantityChange(v.id, q, ok)
    \/ BackToList

SpecStock == InitStock /\ [][NextStock]_vars

(***************************************************************************)
(* The audit log under writes to the audited and to other tables.          *)
(***************************************************************************)
AuditNames == {"N1", "N2"}

InitAudit ==
    /\ products = {[id |-> 1, name |-> "P1"]}
    /\ variants = StockVariants
    /\ nextProductId = 2
    /\ nextVariantId = 2
    /\ uniqueDefault \in BOOLEAN
    /\ orders = {}
    /\ order_items = {}
    /\ nextOrderId = 1
    /\ nextItemId = 1
    /\ customers = {}
    /\ num = Amount(0, 0)
    /\ words = << >>
    /\ categories = {}
    /\ admin_actions = << >>
    /\ nextRowId = 1
    /\ SessionInit
    /\ screen = "list"
    /\ items = << >>
    /\ tax_rate = DefaultTaxRate
    /\ pf = pfClosed
    /\ pd = pdClosed
    /\ sf = sfClosed
    /\ last = NoOutcome

NextAudit ==
    \/ \E t \in AuditedTables, name \in AuditNames : InsertRow(t, name)
    \/ \E t \in AuditedTables, name \in AuditNames :
          \E row \in Table(t) : UpdateRow(t, row, name)
    \/ \E t \in AuditedTables : \E row \in Table(t) : DeleteRow(t, row)
    \/ \E v \in variants, q \in OverrideInputs, ok \in BOOLEAN :
          Inventory_handleQuantityChange(v.id, q, ok)

SpecAudit == InitAudit /\ [][NextAudit]_vars

(***************************************************************************)
(* SKUs of two stored products, on the create and the edit screen.         *)
(***************************************************************************)
SkuProducts ==
    {[id |-> 8, sku |-> "SKU-1", price |-> 10 * Dollar, initial_stock |-> 4,
      minimum_stock |-> 5],
     [id |-> 9, sku |-> "SKU-2", price |-> 10 * Dollar, initial_stock |-> 4,
      minimum_stock |-> 5]}
SkuVariants ==
    {StoredVariant([BookkeepingVariant(id, Some(4), Some(5)) EXCEPT !.id = id]) :
        id \in {8, 9}}

CreateSkus == {"SKU-1", "SKU-3"}
EditSkus == {"SKU-1", "SKU-2"}

InitSku ==
    /\ products = SkuProducts
    /\ variants = SkuVariants
    /\ nextProductId = 1
    /\ nextVariantId = 1
    /\ uniqueDefault \in BOOLEAN
    /\ orders = {}
    /\ order_items = {}
    /\ nextOrderId = 1
    /\ nextItemId = 1
    /\ customers = {}
    /\ num = Amount(0, 0)
    /\ words = << >>
    /\ SideInit
    /\ screen = "list"
    /\ items = << >>
    /\ tax_rate = DefaultTaxRate
    /\ pf = pfClosed
    /\ pd = pdClosed
    /\ sf = sfClosed
    /\ last = NoOutcome

NextSku ==
    \/ OpenProductForm
    \/ \E in \in ProductFormInputs : ProductForm_handleInputChange(in[1], in[2])
    \/ \E sku \in CreateSkus, lookupOk \in BOOLEAN, productOk \in BOOLEAN,
          failed \in SUBSET {1} :
          ProductForm_handleSubmit(sku, lookupOk, productOk, failed)
    \/ \E p \in products : OpenProductDetails(p)
    \/ \E sku \in EditSkus : ProductDetails_handleInputChange("sku", sku)
    \/ \E lookupOk \in BOOLEAN, productOk \in BOOLEAN,
          order \in Orders(Len(pd.variants)), failed \in SUBSET {1, 2} :
          ProductDetails_handleSave(lookupOk, productOk, order, failed)
    \/ BackToList

SpecSku == InitSku /\ [][NextSku]_vars

(***************************************************************************)
(* Specification of order entry against changing stock: the order form of  *)
(* one session, the inventory screen of another.                           *)
(***************************************************************************)
OversellQuantities == {Some(1), Some(3)}

NextOversell ==
    \/ OpenOrderForm
    \/ addItem
    \/ \E index \in 1..MaxLines, p \in products : handleProductChange(index, p)
    \/ \E index \in 1..MaxLines, v \in variants : handleVariantChange(index, v)
    \/ \E index \in 1..MaxLines, q \in OversellQuantities :
          handleQuantityChange(index, q)
    \/ \E customer \in {c.id : c \in customers} \cup {0}, addressComplete \in BOOLEAN,
          orderOk \in BOOLEAN, itemsOk \in BOOLEAN :
          OrderForm_handleSubmit(customer, addressComplete, orderOk, itemsOk)
    \/ \E v \in variants : OtherSession_handleQuantityChange(v.id, 0)

SpecOversell == InitOrder /\ [][NextOversell]_vars

(***************************************************************************)
(* Specification of two sessions receiving stock into one variant.         *)
(***************************************************************************)
ReceiveVariants ==
    {[id |-> 1, product_id |-> 1, variant_name |-> NULL, size |-> "M",
      color |-> "Red", price |-> NoNum, quantity |-> 4, minimum_quantity |-> 5,
      is_default |-> TRUE]}
ReceiveQuantities == {1, 2}

InitReceive ==
    /\ products = StockProducts
    /\ variants = ReceiveVariants
    /\ nextProductId = 2
    /\ nextVariantId = 2
    /\ uniqueDefault \in BOOLEAN
    /\ orders = {}
    /\ order_items = {}
    /\ nextOrderId = 1
    /\ nextItemId = 1
    /\ customers = {}
    /\ num = Amount(0, 0)
    /\ words = << >>
    /\ SideInit
    /\ screen = "list"
    /\ items = << >>
    /\ tax_rate = DefaultTaxRate
    /\ pf = pfClosed
    /\ pd = pdClosed
    /\ sf = sfClosed
    /\ last = NoOutcome

NextReceive ==
    \/ \E s \in Sessions, quantity \in ReceiveQuantities : StockForm_lookup(s, quantity)
    \/ \E s \in Sessions, ok \in BOOLEAN : StockForm_write(s, ok)

SpecReceive == InitReceive /\ [][NextReceive]_vars

(***************************************************************************)
(* Specification of the company settings under two sessions.               *)
(***************************************************************************)
CompanyNames == {"ACME"}

NextSettings ==
    \/ \E s \in Sessions, ok \in BOOLEAN : Profile_fetchCompanySettings(s, ok)
    \/ \E s \in Sessions, ok \in BOOLEAN : Profile_insertDefault(s, ok)
    \/ \E s \in Sessions, value \in CompanyNames :
          Profile_handleCompanyInputChange(s, value)
    \/ \E s \in Sessions, ok \in BOOLEAN : Profile_handleSaveCompanySettings(s, ok)
    \/ \E s \in Sessions : Profile_unmount(s)

SpecSettings == InitStock /\ [][NextSettings]_vars

(***************************************************************************)
(* Specification of the paginated product list.                            *)
(***************************************************************************)
ListedProducts ==
    {[id |-> 1, name |-> <<"a">>], [id |-> 2, name |-> <<"a", "b">>],
     [id |-> 3, name |-> <<"A", "c">>], [id |-> 4, name |-> <<"c">>],
     [id |-> 5, name |-> <<"c", "a">>], [id |-> 6, name |-> <<"d">>]}
ListNames == {<<"B">>}
SearchTerms == {<< >>, <<"a">>, <<"b">>}

InitPages ==
    /\ products = ListedProducts
    /\ variants = {}
    /\ nextProductId = 7
    /\ nextVariantId = 1
    /\ uniqueDefault \in BOOLEAN
    /\ orders = {}
    /\ order_items = {}
    /\ nextOrderId = 1
    /\ nextItemId = 1
    /\ customers = {}
    /\ num = Amount(0, 0)
    /\ words = << >>
    /\ categories = {}
    /\ admin_actions = << >>
    /\ nextRowId = 1
    /\ recv = [s \in Sessions |-> recvIdle]
    /\ company_settings = {}
    /\ nextSettingsId = 1
    /\ profile = [s \in Sessions |-> profileClosed]
    /\ \E ok \in BOOLEAN, countOk \in BOOLEAN :
          pg = fetchProducts(pgInitial, ListedProducts, ok, countOk)
    /\ screen = "list"
    /\ items = << >>
    /\ tax_rate = DefaultTaxRate
    /\ pf = pfClosed
    /\ pd = pdClosed
    /\ sf = sfClosed
    /\ last = NoOutcome

NextPages ==
    \/ \E ok \in BOOLEAN, countOk \in BOOLEAN : Products_mount(ok, countOk)
    \/ \E page \in 1..MaxPage, ok \in BOOLEAN, countOk \in BOOLEAN :
          Table_handlePageChange(page, ok, countOk)
    \/ \E size \in itemsPerPageOptions, ok \in BOOLEAN, countOk \in BOOLEAN :
          Table_handleItemsPerPageChange(size, ok, countOk)
    \/ \E term \in SearchTerms, ok \in BOOLEAN, countOk \in BOOLEAN :
          Table_handleSearch(term, ok, countOk)
    \/ \E p \in products : Products_handleDelete(p)
    \/ \E name \in ListNames : InsertRow("products", name)

SpecPages == InitPages /\ [][NextPages]_vars

(***************************************************************************)
(* Properties of the order store.                                          *)
(***************************************************************************)
RECURSIVE SumAmounts(_)
\* Sum of price x quantity over a set of stored order items.
SumAmounts(S) ==
    IF S = {} THEN 0
    ELSE LET it == CHOOSE x \in S : TRUE
         IN it.price * it.quantity + SumAmounts(S \ {it})

ItemsOfOrder(o) == {it \in order_items : it.order_id = o.id}

\* C1: in every reachable state every stored order has
\* total_amount = subtotal_amount + tax_amount + shipping_amount - discount_amount;
\* neither order creation nor a status change sets the total on its own.
C1_TotalIsDerived ==
    \A o \in orders :
        o.total_amount =
            o.subtotal_amount + o.tax_amount + o.shipping_amount - o.discount_amount

\* C1 witness: an order with a positive subtotal and tax whose status was changed.
C1_Witness ==
    \E o \in orders :
        /\ o.status = "shipped"
        /\ o.subtotal_amount > 0 /\ o.tax_amount > 0 /\ o.shipping_amount > 0
        /\ o.total_amount > o.subtotal_amount + o.tax_amount

\* C2: for every stored order, in every reachable state (also after a creation
\* attempt that failed part-way), subtotal_amount is the sum of price x quantity
\* over the order's stored items.
C2_SubtotalIsItemsSum ==
    \A o \in orders : o.subtotal_amount = SumAmounts(ItemsOfOrder(o))

\* The lines of the example: (10.00 x 2) and (5.00 x 1) at 10%.
C3_IsExample ==
    /\ Len(items) = 2
    /\ items[1].price = Some(10 * Dollar) /\ items[1].quantity = Some(2)
    /\ items[2].price = Some(5 * Dollar) /\ items[2].quantity = Some(1)
    /\ tax_rate = 100

C3_Created(o) ==
    LET sub == SumSeq([i \in 1..Len(items) |->
                          ToNumber(items[i].price) * items[i].quantity[1]])
    IN /\ \A i \in 1..Len(items) : IsNum(items[i].quantity)
       /\ o.subtotal_amount = sub
       /\ o.tax_amount * 1000 = sub * tax_rate
       /\ o.shipping_amount = 10 * Dollar
       /\ o.discount_amount = 0
       /\ o.total_amount = sub + o.tax_amount + 10 * Dollar - 0
       /\ C3_IsExample =>
            /\ o.subtotal_amount = 25 * Dollar
            /\ o.tax_amount = 250 * Cent
            /\ o.total_amount = 3750 * Cent

KeyRows(rows, pid, size, color) ==
    {v \in rows : /\ v.product_id = pid
                  /\ v.size = TextOrNull(size)
                  /\ v.color = TextOrNull(color)}

\* The quantities held under a key, each with the number of variants holding it.
KeyQuantities(rows, pid, size, color) ==
    LET key == KeyRows(rows, pid, size, color)
    IN {<<v.quantity, Cardinality({w \in key : w.quantity = v.quantity})>> : v \in key}

ReceiveSizes == {"", "M"}
ReceiveColors == {"", "Red"}
ReceiveAmounts == {1, 2}

\* C4: from every reachable store, for every product and every (size, color)
\* key, the key with no size and no color included, receiving q1 and then q2
\* (both positive) leaves the key with the same variant quantity as one
\* receive of q1 + q2, and with no less than max(q1, q2).
C4_ReceiveIsCumulative ==
    \A p \in products, size \in ReceiveSizes, color \in ReceiveColors,
       q1 \in ReceiveAmounts, q2 \in ReceiveAmounts :
        LET db == Db(variants, nextVariantId)
            first == ReceiveStock(db, p.id, size, color, q1, TRUE)
            twice == ReceiveStock(first, p.id, size, color, q2, TRUE)
            once == ReceiveStock(db, p.id, size, color, q1 + q2, TRUE)
        IN /\ KeyQuantities(twice.rows, p.id, size, color)
                = KeyQuantities(once.rows, p.id, size, color)
           /\ \E v \in KeyRows(twice.rows, p.id, size, color) :
                  v.quantity >= Max(q1, q2)

\* C9: a submit of the stock form whose received amount is zero or negative
\* ends with a validation error, creates no variant and changes no quantity.
C9_NonPositiveReceiveRejected ==
    [][(screen = "stockForm" /\ sf.quantity <= 0
          /\ last'.op = "StockForm_handleSubmit")
         => /\ last'.status = "validation"
            /\ variants' = variants
            /\ nextVariantId' = nextVariantId]_vars

\* C9 witness: a receive of a non-positive amount for a chosen product has
\* just been turned down.
C9_Witness ==
    /\ last = Outcome("StockForm_handleSubmit", "validation")
    /\ sf.product_id # 0
    /\ sf.quantity < 0

\* C10: a submit of the stock form whose existing quantity + received amount
\* leaves the signed 32-bit range ends with a validation error and without a
\* changed store.
C10_OutOfRangeIsValidationError ==
    [][(/\ screen = "stockForm"
        /\ last'.op = "StockForm_handleSubmit"
        /\ sf.quantity >= 1
        /\ LET e == ExistingVariant(variants, sf.product_id, sf.size, sf.color)
           IN e # << >> /\ ~FitsInteger(e[1].quantity, sf.quantity))
         => /\ last'.status = "validation"
            /\ variants' = variants]_vars

\* C11: a completed receive for (product, size, color) with no variant of the
\* product under that exact pair adds exactly one variant, holding the received
\* amount, and changes no other; with a variant under the pair it changes only
\* that variant's quantity, by the received amount, and adds none.
C11_ReceiveTouchesOneVariant ==
    [][(/\ screen = "stockForm"
        /\ last'.op = "StockForm_handleSubmit" /\ last'.status = "ok")
         => LET key == KeyRows(variants, sf.product_id, sf.size, sf.color)
            IN IF key = {}
               THEN \E v \in variants' \ variants :
                       /\ variants' = variants \cup {v}
                       /\ v.product_id = sf.product_id
                       /\ v.size = TextOrNull(sf.size)
                       /\ v.color = TextOrNull(sf.color)
                       /\ v.quantity = sf.quantity
               ELSE \E e \in key :
                       variants' = (variants \ {e}) \cup
                           {[e EXCEPT !.quantity = e.quantity + sf.quantity]}]_vars

(***************************************************************************)
(* Properties of the product store.                                        *)
(***************************************************************************)
VariantsOfProduct(rows, pid) == {v \in rows : v.product_id = pid}

\* C5: in every reachable state no stored variant quantity, variant price,
\* product price, shipping amount or discount amount is negative.
C5_NoNegativeStored ==
    /\ \A v \in variants : v.quantity >= 0 /\ (IsNum(v.price) => v.price[1] >= 0)
    /\ \A p \in products : p.price >= 0
    /\ \A o \in orders : o.shipping_amount >= 0 /\ o.discount_amount >= 0

\* C6: in every reachable state each product has at most one variant with
\* is_default = true.
C6_AtMostOneDefault ==
    \A p \in products :
        Cardinality({v \in VariantsOfProduct(variants, p.id) : v.is_default}) <= 1

C8_EveryProductHasVariant ==
    \A p \in products : VariantsOfProduct(variants, p.id) # {}


(***************************************************************************)
(* Properties of deleting products and customers.                          *)
(***************************************************************************)
\* C12: deleting any existing product, one that order items reference
\* included, removes the product and every variant of it.
C12_ProductDeleteCascades ==
    [][\A p \in products :
          Products_handleDelete(p)
              => /\ \A q \in products' : q.id # p.id
                 /\ \A v \in variants' : v.product_id # p.id]_vars

\* C13: deleting any customer, one that has orders included, removes the
\* customer, all of the customer's orders and all of their order items.
C13_CustomerDeleteCascades ==
    [][\A c \in customers :
          Customers_handleDelete(c)
              => /\ \A d \in customers' : d.id # c.id
                 /\ \A o \in orders' : o.customer_id # c.id
                 /\ \A it \in order_items' :
                        \A o \in orders : o.id = it.order_id => o.customer_id # c.id]_vars


(***************************************************************************)
(* Properties of the order lines.                                          *)
(***************************************************************************)
\* The variant the order form is said to suggest for a product: its default
\* variant when that is in stock, otherwise its first named variant in stock,
\* otherwise none (0).
C14_Suggested(p) ==
    LET vs == VariantsOf(p.id)
        defaults == {i \in 1..Len(vs) : vs[i].is_default /\ vs[i].quantity > 0}
        named == FindFirst(vs, InStockNamed)
    IN IF defaults # {} THEN vs[CHOOSE i \in defaults : TRUE].id
       ELSE IF named # << >> THEN named[1].id
       ELSE 0

\* C14: selecting a product on an order line suggests the product's default
\* variant if it is in stock, otherwise the first named variant with a
\* positive quantity, otherwise no variant.
C14_DefaultVariantSuggested ==
    [][\A index \in 1..MaxLines, p \in products :
          handleProductChange(index, p)
              => items'[index].variant_id = C14_Suggested(p)]_vars


\* The unit price an order line is said to carry.
C15_Expected(item) ==
    LET p == CHOOSE q \in products : q.id = item.product_id
    IN IF item.variant_id = 0 THEN Some(p.price)
       ELSE LET v == CHOOSE w \in variants : w.id = item.variant_id
            IN IF IsNum(v.price) THEN v.price ELSE Some(p.price)

\* C15: whatever products and variants were selected on a line, by suggestion
\* or by the operator, its unit price is the selected variant's price when the
\* variant has one and the product's base price when it has none; a product
\* without a named variant in stock gives a line without a variant, at the
\* base price.
C15_LinePrice ==
    screen = "orderForm"
        => \A i \in 1..Len(items) :
              items[i].product_id # 0
                  => /\ items[i].price = C15_Expected(items[i])
                     /\ (~\E v \in variants : /\ v.product_id = items[i].product_id
                                               /\ InStockNamed(v))
                            => items[i].variant_id = 0


(***************************************************************************)
(* Properties of stored orders and their items.                            *)
(***************************************************************************)
\* C18: after any attempt to create an order, whether it succeeded or failed
\* at some step, the store holds either the new order with an item for every
\* submitted line, or neither the order nor any new item.
C18_OrderCreationAtomic ==
    [][(screen = "orderForm" /\ last'.op = "OrderForm_handleSubmit")
          => \/ orders' = orders /\ order_items' = order_items
             \/ \E o \in orders' \ orders :
                   /\ orders' = orders \cup {o}
                   /\ \A i \in 1..Len(items) :
                         \E it \in order_items' \ order_items :
                            /\ it.order_id = o.id
                            /\ it.product_id = items[i].product_id
                            /\ it.variant_id = items[i].variant_id]_vars


\* A line whose quantity is zero, negative or not a number.
C20_BadLine(item) == ~IsNum(item.quantity) \/ item.quantity[1] <= 0

\* C20: every stored order item has a positive integer quantity, and a
\* submission with a line whose quantity is zero, negative or not a number
\* stores no order item.
C20_PositiveQuantities ==
    [][/\ \A it \in order_items' : it.quantity \in Nat /\ it.quantity >= 1
       /\ (/\ screen = "orderForm"
           /\ \E i \in 1..Len(items) : C20_BadLine(items[i]))
             => order_items' = order_items]_vars

\* C20 witness: a submission with a line whose quantity is not a number was
\* refused and stored nothing.
C20_Witness ==
    /\ screen = "orderForm"
    /\ last = Outcome("OrderForm_handleSubmit", "error")
    /\ \E i \in 1..Len(items) : items[i].product_id # 0 /\ ~IsNum(items[i].quantity)
    /\ orders = {} /\ order_items = {}


(***************************************************************************)
(* Properties of the amount in words.                                      *)
(***************************************************************************)
\* The English short-scale name of 1..999,999,999, as a list of words.
C16_Small ==
    [n \in 1..19 |->
        <<"One", "Two", "Three", "Four", "Five", "Six", "Seven", "Eight", "Nine",
          "Ten", "Eleven", "Twelve", "Thirteen", "Fourteen", "Fifteen", "Sixteen",
          "Seventeen", "Eighteen", "Nineteen">>[n]]
C16_Tens ==
    [n \in 2..9 |->
        <<"Twenty", "Thirty", "Forty", "Fifty", "Sixty", "Seventy", "Eighty",
          "Ninety">>[n - 1]]
C16_Below100(n) ==
    IF n = 0 THEN << >>
    ELSE IF n < 20 THEN <<C16_Small[n]>>
    ELSE <<C16_Tens[n \div 10]>> \o (IF n % 10 = 0 THEN << >> ELSE <<C16_Small[n % 10]>>)
C16_Below1000(n) ==
    (IF n \div 100 = 0 THEN << >> ELSE <<C16_Small[n \div 100], "Hundred">>)
        \o C16_Below100(n % 100)
C16_Group(n, scale) == IF n = 0 THEN << >> ELSE C16_Below1000(n) \o scale
C16_Name(n) ==
    C16_Group(n \div 1000000, <<"Million">>)
        \o C16_Group((n \div 1000) % 1000, <<"Thousand">>)
        \o C16_Below1000(n % 1000)
\* The words separated by single spaces.
RECURSIVE C16_Join(_)
C16_Join(ws) ==
    IF Len(ws) <= 1 THEN ws ELSE <<Head(ws), SP>> \o C16_Join(Tail(ws))

\* C16: for every integer n in 1..999,999,999 numberToWords(n) is the English
\* short-scale name of n followed by " Only" (100 gives "One Hundred Only",
\* 1234 contains "Thousand"), and numberToWords(0) is "Zero".
C16_WordsAreTheName ==
    (words # << >> /\ num.frac = 0)
        => /\ num.int = 0 => words = <<"Zero">>
           /\ num.int >= 1 => words = C16_Join(C16_Name(num.int)) \o <<SP, "Only">>
           /\ num.int = 100 => words = <<"One", SP, "Hundred", SP, "Only">>
           /\ num.int = 1234 => \E i \in 1..Len(words) : words[i] = "Thousand"

\* C16 witness: 999,999,999 has been spelled out.
C16_Witness ==
    /\ num = Amount(999999999, 0)
    /\ words = <<"Nine", SP, "Hundred", SP, "Ninety", SP, "Nine", SP, "Million", SP,
                 "Nine", SP, "Hundred", SP, "Ninety", SP, "Nine", SP, "Thousand", SP,
                 "Nine", SP, "Hundred", SP, "Ninety", SP, "Nine", SP, "Only">>

\* C17: numberToWords(x) = numberToWords(floor(x)) for every non-negative
\* amount x, the amounts strictly between 0 and 1 included.
C17_FractionIgnored ==
    words # << >> => words = numberToWords(Amount(Floor(num), 0))


(***************************************************************************)
(* Properties of stored prices.                                            *)
(***************************************************************************)
\* C19: a step that changes a product's base price or a variant's price
\* leaves every stored order item, its unit price included, and every
\* order's subtotal, tax and total as they were.
C19_PriceIsSnapshot ==
    [][(products' # products \/ variants' # variants)
          => /\ order_items' = order_items
             /\ \A o \in orders :
                   \E n \in orders' : /\ n.id = o.id
                                      /\ n.subtotal_amount = o.subtotal_amount
                                      /\ n.tax_amount = o.tax_amount
                                      /\ n.total_amount = o.total_amount]_vars

\* C19 witness: the base price went from 10.00 to 12.00 and the variant got
\* the price 7.00, while the stored item still carries 10.00 and the order
\* 20.00 + 2.00 + 10.00 = 32.00.
C19_Witness ==
    /\ last = Outcome("ProductDetails_handleSave", "ok")
    /\ \E p \in products : p.id = 1 /\ p.price = 12 * Dollar
    /\ \E v \in variants : v.id = 1 /\ v.price = Some(7 * Dollar)
    /\ \E it \in order_items : it.product_id = 1 /\ it.price = 10 * Dollar
    /\ \E o \in orders : /\ o.subtotal_amount = 20 * Dollar
                          /\ o.tax_amount = 2 * Dollar
                          /\ o.total_amount = 32 * Dollar


(***************************************************************************)
(* Properties of the audit log.                                            *)
(***************************************************************************)
\* The log gained exactly the record r.
C21_Logged(action_type, entity_type, entity_id) ==
    /\ Len(admin_actions') = Len(admin_actions) + 1
    /\ SubSeq(admin_actions', 1, Len(admin_actions)) = admin_actions
    /\ LET r == admin_actions'[Len(admin_actions')]
       IN /\ r.action_type = action_type
          /\ r.entity_type = entity_type
          /\ r.entity_id = entity_id

\* C21: every insert, update or delete of a product, a customer or a
\* category that the table accepts takes effect and appends exactly one
\* admin_actions record with its action type, entity type and entity id;
\* a write to another table appends none.
C21_WritesAreAudited ==
    [][/\ \A t \in AuditedTables, name \in AuditNames :
             InsertRow(t, name)
                 => \E row \in Table(t)' \ Table(t) :
                       /\ row.name = name
                       /\ C21_Logged("insert", t, row.id)
       /\ \A t \in AuditedTables, name \in AuditNames :
             \A row \in Table(t) :
                UpdateRow(t, row, name)
                    => /\ [row EXCEPT !.name = name] \in Table(t)'
                       /\ C21_Logged("update", t, row.id)
       /\ \A t \in AuditedTables :
             \A row \in Table(t) :
                DeleteRow(t, row)
                    => /\ row \notin Table(t)'
                       /\ C21_Logged("delete", t, row.id)
       /\ (variants' # variants) => admin_actions' = admin_actions]_vars


(***************************************************************************)
(* Properties of the SKU.                                                  *)
(***************************************************************************)
\* The step stored nothing in products and product_variants.
C22_NoWrite == products' = products /\ variants' = variants

\* C22: no two stored products share a SKU; a create or an edit with the SKU
\* of a different product ends with the SKU error and writes no product and
\* no variant, and a save of a product under its own SKU does not end with
\* the SKU error.
C22_SkuIsUnique ==
    [][/\ \A p, q \in products' : p.sku = q.sku => p.id = q.id
       /\ \A sku \in CreateSkus, lookupOk \in BOOLEAN, productOk \in BOOLEAN,
             failed \in SUBSET {1} :
             (/\ ProductForm_handleSubmit(sku, lookupOk, productOk, failed)
              /\ ProductFormValid
              /\ \E p \in products : p.sku = sku)
                 => last'.status = "sku" /\ C22_NoWrite
       /\ \A lookupOk \in BOOLEAN, productOk \in BOOLEAN,
             order \in Orders(Len(pd.variants)), failed \in SUBSET {1, 2} :
             ProductDetails_handleSave(lookupOk, productOk, order, failed)
                 => /\ (\E p \in products : p.sku = pd.sku /\ p.id # pd.product_id)
                        => last'.status = "sku" /\ C22_NoWrite
                    /\ (\E p \in products : p.sku = pd.sku /\ p.id = pd.product_id)
                        => last'.status # "sku"]_vars


(***************************************************************************)
(* Properties of the variant editors.                                      *)
(***************************************************************************)
\* A variant that is named, sized or coloured.
C23_Explicit(v) == IsText(v.variant_name) \/ IsText(v.size) \/ IsText(v.color)

\* C23: a save of a product with explicit variants none of which is marked
\* default writes nothing and does not succeed, on the create screen and on
\* the edit screen; and every stored product with an explicit variant has a
\* default variant.
C23_DefaultRequired ==
    [][/\ (/\ screen = "productForm"
           /\ last'.op = "ProductForm_handleSubmit"
           /\ pf.hasVariants /\ Len(pf.variants) > 0
           /\ \A i \in 1..Len(pf.variants) : ~pf.variants[i].is_default)
             => /\ last'.status # "ok"
                /\ products' = products /\ variants' = variants
       /\ (/\ screen = "productDetails"
           /\ last'.op = "ProductDetails_handleSave"
           /\ pd.hasVariants
           /\ \A i \in 1..Len(pd.variants) : ~pd.variants[i].is_default)
             => /\ last'.status # "ok"
                /\ products' = products /\ variants' = variants
       /\ \A p \in products' :
             (\E v \in variants' : v.product_id = p.id /\ C23_Explicit(v))
                 => \E v \in variants' : v.product_id = p.id /\ v.is_default]_vars


\* The stored variants of a product, before and after a step.
C27_Before(pid) == {v \in variants : v.product_id = pid}
C27_After(pid) == {v \in variants' : v.product_id = pid}

\* C27: a successful save of the edit screen of a product without explicit
\* variants leaves the product's bookkeeping variant as it was: same
\* identifier, same stock quantity.
C27_BookkeepingVariantKept ==
    [][(/\ screen = "productDetails"
        /\ last'.op = "ProductDetails_handleSave"
        /\ last'.status = "ok"
        /\ ~pd.hasVariants
        /\ Cardinality(C27_Before(pd.product_id)) = 1)
          => \A v \in C27_Before(pd.product_id) :
                \E w \in C27_After(pd.product_id) :
                    w.id = v.id /\ w.quantity = v.quantity]_vars

\* An editor variant all of whose numeric fields hold a number.
C28_Numeric(e) == IsNum(e.price) /\ IsNum(e.quantity) /\ IsNum(e.minimum_quantity)

\* The stored row w is the editor variant e.
C28_Stores(w, e) ==
    /\ e.id # 0 => w.id = e.id
    /\ w.variant_name = e.variant_name
    /\ w.size = TextOrNull(e.size)
    /\ w.color = TextOrNull(e.color)
    /\ w.is_default = e.is_default
    /\ w.price = e.price
    /\ Some(w.quantity) = e.quantity
    /\ Some(w.minimum_quantity) = e.minimum_quantity

\* C28: after a successful save of the edit screen of a product with explicit
\* variants the stored variants of the product are exactly the variants of the
\* editor: as many rows as editor variants, every editor variant stored.
C28_StoredAreTheEditorVariants ==
    [][(/\ screen = "productDetails"
        /\ last'.op = "ProductDetails_handleSave"
        /\ last'.status = "ok"
        /\ pd.hasVariants)
          => /\ Cardinality(C27_After(pd.product_id)) = Len(pd.variants)
             /\ \A i \in 1..Len(pd.variants) :
                   \E w \in C27_After(pd.product_id) :
                       C28_Stores(w, pd.variants[i])]_vars

\* C29: every variant row stored by a successful create carries the quantity,
\* the price and the minimum quantity of a variant of the form, a value of 0
\* included.
C29_EnteredValuesStored ==
    [][(/\ screen = "productForm"
        /\ last'.op = "ProductForm_handleSubmit"
        /\ last'.status = "ok"
        /\ pf.hasVariants /\ Len(pf.variants) > 0
        /\ \A i \in 1..Len(pf.variants) : C28_Numeric(pf.variants[i]))
          => \A w \in variants' \ variants :
                \E i \in 1..Len(pf.variants) :
                    /\ w.quantity = pf.variants[i].quantity[1]
                    /\ w.price = pf.variants[i].price
                    /\ w.minimum_quantity = pf.variants[i].minimum_quantity[1]]_vars


(***************************************************************************)
(* Properties of order entry against stock.                                *)
(***************************************************************************)
\* Every line of the order form names a product and holds a numeric quantity
\* and price.
C26_LinesComplete ==
    \A i \in 1..Len(items) :
        /\ items[i].product_id # 0
        /\ IsNum(items[i].quantity)
        /\ IsNum(items[i].price)

\* C26: a submit of the order form leaves every variant as it is, whatever the
\* line quantities; and a submit of complete lines for a chosen customer with
\* a complete address, whose requests the store serves, is accepted, whether
\* or not a line quantity exceeds the quantity of the variant of the line.
C26_OrderLeavesStock ==
    [][\A customer \in {c.id : c \in customers} \cup {0},
          addressComplete \in BOOLEAN, orderOk \in BOOLEAN, itemsOk \in BOOLEAN :
          OrderForm_handleSubmit(customer, addressComplete, orderOk, itemsOk)
            => /\ variants' = variants
               /\ (/\ customer # 0 /\ addressComplete /\ orderOk /\ itemsOk
                   /\ C26_LinesComplete)
                     => /\ last'.status = "ok"
                        /\ Cardinality(order_items') =
                              Cardinality(order_items) + Len(items)]_vars

\* An order was accepted with a line on a variant of quantity zero and a line
\* whose quantity exceeds the positive quantity of its variant.
C26_Witness ==
    /\ last = Outcome("OrderForm_handleSubmit", "ok")
    /\ \E it \in order_items, v \in variants :
          it.variant_id = v.id /\ v.quantity = 0 /\ it.quantity > 0
    /\ \E it \in order_items, v \in variants :
          it.variant_id = v.id /\ v.quantity > 0 /\ it.quantity > v.quantity


(***************************************************************************)
(* Properties of concurrent stock receipts.                                *)
(***************************************************************************)
\* The quantity of the variant both sessions receive into, before any receipt
\* and now.
C25_Initial == (CHOOSE v \in ReceiveVariants : TRUE).quantity
C25_Quantity == (CHOOSE v \in variants : v.id = 1).quantity
C25_Accepted == recv[1].accepted + recv[2].accepted

\* C25: a receipt writes the quantity it read plus the quantity received,
\* whatever the variant holds by then (the last write wins), so that the
\* variant never holds more than its initial quantity plus the accepted
\* receipts and can hold less.
C25_LastWriteWins ==
    [][/\ \A s \in Sessions :
            (/\ StockForm_write(s, TRUE)
             /\ recv[s].existingVariant # << >>
             /\ recv'[s].status = "ok")
               => \A v \in variants' :
                     v.id = recv[s].existingVariant[1].id
                        => v.quantity = recv[s].existingVariant[1].quantity
                                          + recv[s].quantity
       /\ C25_Quantity' <= C25_Initial + C25_Accepted']_vars

\* Both sessions received a positive quantity into the variant, both receipts
\* were accepted, and the variant holds less than the initial quantity plus
\* the two receipts.
C25_Witness ==
    /\ \A s \in Sessions : /\ recv[s].pc = "idle"
                           /\ recv[s].rounds = 1
                           /\ recv[s].status = "ok"
                           /\ recv[s].accepted > 0
    /\ C25_Quantity < C25_Initial + recv[1].accepted + recv[2].accepted


(***************************************************************************)
(* Properties of the company settings.                                     *)
(***************************************************************************)
\* C24: company_settings holds at most one row, whatever loads and saves the
\* sessions have made.
C24_Singleton == Cardinality(company_settings) <= 1


(***************************************************************************)
(* Properties of the paginated lists.                                      *)
(***************************************************************************)
\* C30: the page of the product list lies within 1..max(1, number of pages).
C30_PageInRange ==
    /\ pg.page >= 1
    /\ pg.page <= Max(1, totalPages(pg))

====
